---- MODULE Spec2Model ----
(***************************************************************************)
(* A model of the HNA tracker's scrapers (src/src/scraper.ts, the player   *)
(* stats scraper src/unnamed/part_001, src/src/goalieStatsScraper.ts) and  *)
(* of the daily run that saves their snapshots (main, src/unnamed/part_000).*)
(*                                                                         *)
(* A page is modelled as the sequence of its <table> elements in document  *)
(* order (tables are not nested); a table has a class set, the rows of its *)
(* <thead> and the rows of its <tbody>; a row is the sequence of its cells *)
(* (<td> or <th>); a cell is a small DOM tree of <a>/<span> elements and   *)
(* text nodes.  Text is a sequence of one-character strings, so that       *)
(* trim, toLowerCase, includes, parseInt and parseFloat are computed on    *)
(* the characters.  A JavaScript number is [nan, v]; a fractional number   *)
(* is held in thousandths (v = 750 stands for 0.750).                      *)
(***************************************************************************)
EXTENDS Integers, Sequences, FiniteSets, TLC

(***************************************************************************)
(* Text: String.prototype.trim, toLowerCase, includes.                     *)
(***************************************************************************)
Digits == <<"0", "1", "2", "3", "4", "5", "6", "7", "8", "9">>

IsDigit(c) == \E d \in 1..10 : Digits[d] = c

DigitVal(c) == (CHOOSE d \in 1..10 : Digits[d] = c) - 1

IsSpace(c) == c = " "

RECURSIVE TrimStart(_)
TrimStart(s) ==
  IF s # <<>> /\ IsSpace(Head(s)) THEN TrimStart(Tail(s)) ELSE s

RECURSIVE TrimEnd(_)
TrimEnd(s) ==
  IF s # <<>> /\ IsSpace(s[Len(s)]) THEN TrimEnd(SubSeq(s, 1, Len(s) - 1)) ELSE s

trim(s) == TrimEnd(TrimStart(s))

UpperCase ==
  <<"A", "B", "C", "D", "E", "F", "G", "H", "I", "J", "K", "L", "M",
    "N", "O", "P", "Q", "R", "S", "T", "U", "V", "W", "X", "Y", "Z">>

LowerCase ==
  <<"a", "b", "c", "d", "e", "f", "g", "h", "i", "j", "k", "l", "m",
    "n", "o", "p", "q", "r", "s", "t", "u", "v", "w", "x", "y", "z">>

toLowerCaseChar(c) ==
  IF \E i \in 1..26 : UpperCase[i] = c
  THEN LowerCase[CHOOSE i \in 1..26 : UpperCase[i] = c]
  ELSE c

toLowerCase(s) == [i \in 1..Len(s) |-> toLowerCaseChar(s[i])]

includes(s, sub) ==
  \E i \in 0..(Len(s) - Len(sub)) : SubSeq(s, i + 1, i + Len(sub)) = sub

(***************************************************************************)
(* Numbers: parseInt(text, 10), parseFloat(text) and `x || 0`.             *)
(* parseFloat keeps three fraction digits (the pages print three) and no   *)
(* exponent; the texts drawn below have neither.                           *)
(***************************************************************************)
NaN == [nan |-> TRUE, v |-> 0]

Num(n) == [nan |-> FALSE, v |-> n]

RECURSIVE TakeDigits(_)
TakeDigits(s) ==
  IF s # <<>> /\ IsDigit(Head(s)) THEN <<Head(s)>> \o TakeDigits(Tail(s)) ELSE <<>>

RECURSIVE DigitsValue(_, _)
DigitsValue(ds, acc) ==
  IF ds = <<>> THEN acc ELSE DigitsValue(Tail(ds), acc * 10 + DigitVal(Head(ds)))

Unsigned(s) == IF s # <<>> /\ Head(s) \in {"+", "-"} THEN Tail(s) ELSE s

Signed(s, n) == IF s # <<>> /\ Head(s) = "-" THEN 0 - n ELSE n

parseInt(str) ==
  LET s == TrimStart(str)
      ds == TakeDigits(Unsigned(s))
  IN  IF ds = <<>> THEN NaN ELSE Num(Signed(s, DigitsValue(ds, 0)))

Thousandths(fd) ==
  DigitsValue(SubSeq(fd \o <<"0", "0", "0">>, 1, 3), 0)

parseFloat(str) ==
  LET s == TrimStart(str)
      b == Unsigned(s)
      ip == TakeDigits(b)
      rest == SubSeq(b, Len(ip) + 1, Len(b))
      fd == IF rest # <<>> /\ Head(rest) = "." THEN TakeDigits(Tail(rest)) ELSE <<>>
  IN  IF ip = <<>> /\ fd = <<>>
      THEN NaN
      ELSE Num(Signed(s, DigitsValue(ip, 0) * 1000 + Thousandths(fd)))

\* Without `|| 0`: NaN is kept.
OrZeroMissing(r) == r

OrZero(r) == IF r.nan \/ r.v = 0 THEN Num(0) ELSE r

(***************************************************************************)
(* The DOM of a cell and the cheerio calls the scrapers make on it.        *)
(***************************************************************************)
TextNode(t) == [tag |-> "#text", cls |-> {}, text |-> t, kids |-> <<>>]

El(tag, cls, kids) == [tag |-> tag, cls |-> cls, text |-> <<>>, kids |-> kids]

RECURSIVE ConcatAll(_)
ConcatAll(ss) == IF ss = <<>> THEN <<>> ELSE Head(ss) \o ConcatAll(Tail(ss))

RECURSIVE NodeText(_)
NodeText(n) ==
  IF n.tag = "#text"
  THEN n.text
  ELSE ConcatAll([i \in 1..Len(n.kids) |-> NodeText(n.kids[i])])

\* .text() of a selection: the texts of its elements, concatenated.
SelText(sel) == ConcatAll([i \in 1..Len(sel) |-> NodeText(sel[i])])

\* The element descendants of n in document order, each with its ancestors
\* below n.
RECURSIVE Descendants(_, _)
Descendants(n, ancs) ==
  ConcatAll([i \in 1..Len(n.kids) |->
    IF n.kids[i].tag = "#text"
    THEN <<>>
    ELSE <<[node |-> n.kids[i], ancs |-> ancs]>>
         \o Descendants(n.kids[i], ancs \o <<n.kids[i]>>)])

Matches(n, tag, cls) == n.tag = tag /\ cls \subseteq n.cls

Nodes(ds) == [i \in 1..Len(ds) |-> ds[i].node]

\* ctx.find("tag.cls")
find(ctx, tag, cls) ==
  Nodes(SelectSeq(Descendants(ctx, <<>>), LAMBDA d : Matches(d.node, tag, cls)))

\* ctx.find("atag.acls tag")
findUnder(ctx, atag, acls, tag) ==
  Nodes(SelectSeq(Descendants(ctx, <<>>),
    LAMBDA d : /\ Matches(d.node, tag, {})
               /\ \E j \in 1..Len(d.ancs) : Matches(d.ancs[j], atag, acls)))

\* $(tr).find("td")
tds(row) == SelectSeq(row, LAMBDA c : c.tag = "td")

\* cells.eq(i).text(): the empty text when the row has no such cell.
eqText(cells, i) == IF i + 1 <= Len(cells) THEN NodeText(cells[i + 1]) ELSE <<>>

(***************************************************************************)
(* Program constants.                                                      *)
(***************************************************************************)
DIVISION_NAMES == <<"1-BRODEUR", "2-MANNO", "3-STEVENS NORTH", "3-STEVENS SOUTH">>

StandingsMinCells == 8

PlayerMinCells == 16

GoalieMinCells == 16

TeamLabel == <<"t", "e", "a", "m">>

PlayerLabel == <<"p", "l", "a", "y", "e", "r">>

GoalieLabel == <<"g", "o", "a", "l", "i", "e">>

GpLabel == <<"g", "p">>

PtsLabel == <<"p", "t", "s">>

\* cells.eq(i).text().trim()
cellText(cells, i) == trim(eqText(cells, i))

\* parseInt(cells.eq(i).text().trim(), 10) || 0
intCell(cells, i) == OrZero(parseInt(cellText(cells, i)))

\* parseFloat(cells.eq(i).text().trim()) || 0
floatCell(cells, i) == OrZero(parseFloat(cellText(cells, i)))

\* sel.find("tag.cls") on a selection of several elements
findAll(sel, tag, cls) == ConcatAll([i \in 1..Len(sel) |-> find(sel[i], tag, cls)])

(***************************************************************************)
(* scrapeStandings: the decoding of one table's rows, the choice of the    *)
(* standings tables and their assignment to the divisions.                 *)
(***************************************************************************)
\* The team name read as the player name is: the whole link text.
teamNameLinkText(cells) ==
  LET teamCell == cells[1]
      teamLink == find(teamCell, "a", {})
  IN  IF Len(teamLink) > 0
      THEN trim(SelText(teamLink))
      ELSE trim(NodeText(teamCell))

teamName(cells) ==
  LET teamCell == cells[1]
      teamLink == find(teamCell, "a", {})
      fullNameSpan == findAll(teamLink, "span", {"d-sm-inline"})
  IN  IF Len(teamLink) > 0
      THEN IF Len(fullNameSpan) > 0
           THEN trim(SelText(fullNameSpan))
           ELSE trim(SelText(teamLink))
      ELSE trim(NodeText(teamCell))

\* The header check without the check for an empty name.
looksLikeTeamHeaderOnly(name) == toLowerCase(name) = TeamLabel

looksLikeTeamHeader(name) == name = <<>> \/ toLowerCase(name) = TeamLabel

teamPosition(teams) == Len(teams) + 1

TeamStanding(cells, teams) ==
  [team |-> teamName(cells),
   gp |-> intCell(cells, 1),
   w |-> intCell(cells, 2),
   l |-> intCell(cells, 3),
   t |-> intCell(cells, 4),
   otl |-> intCell(cells, 5),
   pts |-> intCell(cells, 6),
   wpct |-> floatCell(cells, 7),
   position |-> teamPosition(teams)]

\* The new record put before the ones found so far.
standingsRowFront(row, teams) ==
  LET cells == tds(row)
  IN  IF Len(cells) >= StandingsMinCells
      THEN IF looksLikeTeamHeader(teamName(cells))
           THEN teams
           ELSE <<TeamStanding(cells, teams)>> \o teams
      ELSE teams

standingsRow(row, teams) ==
  LET cells == tds(row)
  IN  IF Len(cells) >= StandingsMinCells
      THEN IF looksLikeTeamHeader(teamName(cells))
           THEN teams
           ELSE Append(teams, TeamStanding(cells, teams))
      ELSE teams

RECURSIVE standingsRows(_, _)
standingsRows(rows, teams) ==
  IF rows = <<>>
  THEN teams
  ELSE standingsRows(Tail(rows), standingsRow(Head(rows), teams))

hasStandingsData(table) ==
  \E i \in 1..Len(table.tbody) : Len(tds(table.tbody[i])) >= StandingsMinCells

\* Every table taken as a standings table.
standingsTablesAll(html) == html

standingsTables(html) == SelectSeq(html, hasStandingsData)

divisionTeams(tables, index) ==
  IF index < Len(tables)
  THEN standingsRows(tables[index + 1].tbody, <<>>)
  ELSE <<>>

\* The division assigned only inside `if (index < standingsTables.length)`.
standingsDivisionsFound(html) ==
  [name \in {DIVISION_NAMES[i] :
              i \in {j \in 1..Len(DIVISION_NAMES) : j <= Len(standingsTables(html))}} |->
    divisionTeams(standingsTables(html),
                  (CHOOSE i \in 1..Len(DIVISION_NAMES) : DIVISION_NAMES[i] = name) - 1)]

standingsDivisions(html) ==
  [name \in {DIVISION_NAMES[i] : i \in 1..Len(DIVISION_NAMES)} |->
    divisionTeams(standingsTables(html),
                  (CHOOSE i \in 1..Len(DIVISION_NAMES) : DIVISION_NAMES[i] = name) - 1)]

(***************************************************************************)
(* scrapeDivisionStats (player stats): every table whose first row names   *)
(* player, gp and pts is read, its rows pushed on the one players list.    *)
(***************************************************************************)
playerName(cells) ==
  LET playerCell == cells[2]
      playerLink == find(playerCell, "a", {})
  IN  IF Len(playerLink) > 0
      THEN trim(SelText(playerLink))
      ELSE trim(NodeText(playerCell))

\* The header check without toLowerCase.
looksLikePlayerHeaderCased(name) == name = <<>> \/ name = PlayerLabel

looksLikePlayerHeader(name) == name = <<>> \/ toLowerCase(name) = PlayerLabel

playerRank(index, players) == index + 1

PlayerStats(cells, index, players) ==
  [rank |-> playerRank(index, players),
   name |-> playerName(cells),
   jerseyNumber |-> cellText(cells, 2),
   position |-> cellText(cells, 3),
   team |-> cellText(cells, 4),
   gp |-> intCell(cells, 5),
   goals |-> intCell(cells, 6),
   assists |-> intCell(cells, 7),
   points |-> intCell(cells, 8),
   pointsPerGame |-> floatCell(cells, 9),
   ppg |-> intCell(cells, 10),
   ppa |-> intCell(cells, 11),
   shg |-> intCell(cells, 12),
   sha |-> intCell(cells, 13),
   gwg |-> intCell(cells, 14),
   pim |-> intCell(cells, 15)]

\* The cell count checked against 15.
playerRowFifteen(row, index, players) ==
  LET cells == tds(row)
  IN  IF Len(cells) >= PlayerMinCells - 1
      THEN IF looksLikePlayerHeader(playerName(cells))
           THEN players
           ELSE Append(players, PlayerStats(cells, index, players))
      ELSE players

playerRow(row, index, players) ==
  LET cells == tds(row)
  IN  IF Len(cells) >= PlayerMinCells
      THEN IF looksLikePlayerHeader(playerName(cells))
           THEN players
           ELSE Append(players, PlayerStats(cells, index, players))
      ELSE players

RECURSIVE playerRows(_, _, _)
playerRows(rows, index, players) ==
  IF rows = <<>>
  THEN players
  ELSE playerRows(Tail(rows), index + 1, playerRow(Head(rows), index, players))

\* table.find("thead tr, tr").first().text().toLowerCase()
headerText(table) ==
  LET trs == table.thead \o table.tbody
  IN  IF trs = <<>> THEN <<>> ELSE toLowerCase(SelText(Head(trs)))

\* Every table taken as the player stats table.
isPlayerStatsTableAny(table) == TRUE

isPlayerStatsTable(table) ==
  /\ includes(headerText(table), PlayerLabel)
  /\ includes(headerText(table), GpLabel)
  /\ includes(headerText(table), PtsLabel)

RECURSIVE playerTables(_, _)
playerTables(tables, players) ==
  IF tables = <<>>
  THEN players
  ELSE playerTables(Tail(tables),
         IF isPlayerStatsTable(Head(tables))
         THEN playerRows(Head(tables).tbody, 0, players)
         ELSE players)

parsePlayerStats(html) == playerTables(html, <<>>)

(***************************************************************************)
(* scrapeDivisionGoalieStats: the rows of the tables of class leaders.     *)
(***************************************************************************)
desktopNameSpan(goalieCell) ==
  Nodes(SelectSeq(Descendants(goalieCell, <<>>),
    LAMBDA d :
      /\ Matches(d.node, "a", {})
      /\ \E j \in 1..Len(d.ancs) :
            \/ Matches(d.ancs[j], "span", {"d-none", "d-sm-block"})
            \/ Matches(d.ancs[j], "span", {"d-sm-block"})))

goalieName(cells) ==
  LET goalieCell == cells[2]
      desktop == desktopNameSpan(goalieCell)
      mobileNameSpan == findUnder(goalieCell, "span", {"d-sm-none"}, "a")
      goalieName1 == IF Len(desktop) > 0
                     THEN trim(SelText(desktop))
                     ELSE trim(NodeText(goalieCell))
  IN  IF goalieName1 = <<>>
      THEN IF Len(mobileNameSpan) > 0
           THEN trim(SelText(mobileNameSpan))
           ELSE trim(NodeText(goalieCell))
      ELSE goalieName1

goalieTeam(cells) ==
  LET teamCell == cells[3]
      teamAbbrSpan == find(teamCell, "span", {})
  IN  IF Len(teamAbbrSpan) > 0
      THEN trim(NodeText(Head(teamAbbrSpan)))
      ELSE trim(NodeText(teamCell))

looksLikeGoalieHeader(name) == name = <<>> \/ toLowerCase(name) = GoalieLabel

goalieRank(index, goalies) == index + 1

GoalieStats(cells, index, goalies) ==
  [rank |-> goalieRank(index, goalies),
   name |-> goalieName(cells),
   team |-> goalieTeam(cells),
   gp |-> intCell(cells, 3),
   w |-> intCell(cells, 4),
   l |-> intCell(cells, 5),
   t |-> intCell(cells, 6),
   otl |-> intCell(cells, 7),
   so |-> intCell(cells, 8),
   mp |-> intCell(cells, 9),
   ga |-> intCell(cells, 10),
   gaa |-> floatCell(cells, 11),
   gsaa |-> floatCell(cells, 12),
   sa |-> intCell(cells, 13),
   sv |-> intCell(cells, 14),
   svPct |-> floatCell(cells, 15),
   goals |-> intCell(cells, 16),
   assists |-> intCell(cells, 17),
   pim |-> intCell(cells, 18)]

goalieRow(row, index, goalies) ==
  LET cells == tds(row)
  IN  IF Len(cells) >= GoalieMinCells
      THEN IF looksLikeGoalieHeader(goalieName(cells))
           THEN goalies
           ELSE Append(goalies, GoalieStats(cells, index, goalies))
      ELSE goalies

RECURSIVE goalieRows(_, _, _)
goalieRows(rows, index, goalies) ==
  IF rows = <<>>
  THEN goalies
  ELSE goalieRows(Tail(rows), index + 1, goalieRow(Head(rows), index, goalies))

\* $("table.leaders")
leadersTables(html) == SelectSeq(html, LAMBDA table : "leaders" \in table.cls)

\* $("table.leaders").find("tbody tr")
leadersRows(html) ==
  ConcatAll([i \in 1..Len(leadersTables(html)) |-> leadersTables(html)[i].tbody])

parseGoalieStats(html) ==
  IF Len(leadersTables(html)) > 0
  THEN goalieRows(leadersRows(html), 0, <<>>)
  ELSE <<>>

(***************************************************************************)
(* Page contents drawn as inputs.  The texts, the markup of the name cell, *)
(* the cell counts and the rows and tables built from them are samples of  *)
(* what a page can hold; the bounds say how many rows and tables.          *)
(***************************************************************************)
MaxRows == 3

MaxStandingsTables == 5

MaxDays == 1

Stealth == <<"S", "t", "e", "a", "l", "t", "h">>

Devils == <<"D", "e", "v", "i", "l", "s">>

STL == <<"S", "T", "L">>

DEV == <<"D", "E", "V">>

Ten == <<"1", "0">>

Pct750 == <<".", "7", "5", "0">>

NameTexts ==
  {Stealth, <<>>, <<"T", "e", "a", "m">>, <<"T", "E", "A", "M">>, <<"P", "l", "a", "y", "e", "r">>, <<"P", "L", "A", "Y", "E", "R">>, <<"G", "o", "a", "l", "i", "e">>, <<"G", "O", "A", "L", "I", "E">>}

NumTexts ==
  {<<>>, <<"x">>, <<"-">>, <<"1", "5">>, Pct750, <<"1", ".", "5", "0", "0">>,
   <<"7", "x">>, <<"x", "7">>, <<" ", "7", " ">>, <<"-", "3">>}

Td(kids) == El("td", {}, kids)

Th(t) == El("th", {}, <<TextNode(t)>>)

TextCell(t) == Td(<<TextNode(t)>>)

\* <td>name</td>
PlainName(n) == TextCell(n)

\* <td><a>name</a></td>
LinkName(n) == Td(<<El("a", {}, <<TextNode(n)>>)>>)

\* <td><a><span class="d-sm-inline">name</span><span class="d-sm-none">ABBR</span></a></td>
LinkSpans(n, abbr) ==
  Td(<<El("a", {}, <<El("span", {"d-sm-inline"}, <<TextNode(n)>>),
                     El("span", {"d-sm-none"}, <<TextNode(abbr)>>)>>)>>)

\* <td><span class="d-none d-sm-block"><a>name</a></span><span class="d-sm-none"><a>ABBR</a></span></td>
SpanLinks(n, abbr) ==
  Td(<<El("span", {"d-none", "d-sm-block"}, <<El("a", {}, <<TextNode(n)>>)>>),
       El("span", {"d-sm-none"}, <<El("a", {}, <<TextNode(abbr)>>)>>)>>)

\* <td><a><span class="d-sm-none">ABBR</span></a></td>
LinkAbbr(abbr) ==
  Td(<<El("a", {}, <<El("span", {"d-sm-none"}, <<TextNode(abbr)>>)>>)>>)

\* <td>x<a>name</a></td>
NoteAndLink(n) == Td(<<TextNode(<<"x">>), El("a", {}, <<TextNode(n)>>)>>)

NameCells ==
  UNION {{PlainName(n), LinkName(n), LinkSpans(n, STL), SpanLinks(n, STL)} :
          n \in NameTexts}
  \cup {PlainName(<<" ">> \o Stealth \o <<" ">>), LinkAbbr(STL), NoteAndLink(Stealth)}

\* <td><span>ABBR</span><span>ABBR</span></td>
TeamCell(abbr) ==
  Td(<<El("span", {}, <<TextNode(abbr)>>), El("span", {}, <<TextNode(abbr)>>)>>)

\* A standings row of n cells: the team cell, then the stat cells, holding
\* t1 at the even and t2 at the odd zero-based cell indexes.
StandingsRow(n, nameCell, t1, t2) ==
  [i \in 1..n |->
    IF i = 1 THEN nameCell
    ELSE IF i % 2 = 0 THEN TextCell(t2) ELSE TextCell(t1)]

\* A stats row of n cells: the rank cell, the name cell, the team cell,
\* then the stat cells as above.
StatsRow(n, rank, nameCell, t1, t2) ==
  [i \in 1..n |->
    IF i = 1 THEN TextCell(rank)
    ELSE IF i = 2 THEN nameCell
    ELSE IF i = 3 THEN TeamCell(STL)
    ELSE IF i % 2 = 0 THEN TextCell(t2) ELSE TextCell(t1)]

\* The heading row of a stats table, as <th> or as <td> cells.
StatsHeading(tag, label) ==
  [i \in 1..19 |->
    El(tag, {}, <<TextNode(IF i = 2 THEN label
                           ELSE IF i = 6 THEN <<"G", "P">>
                           ELSE IF i = 9 THEN <<"P", "T", "S">>
                           ELSE <<>>)>>)]

Table(cls, thead, tbody) == [cls |-> cls, thead |-> thead, tbody |-> tbody]

SeqsUpTo(S, n) == UNION {[1..m -> S] : m \in 0..n}

\* Standings rows: two that decode, one too short, one of eight empty
\* cells, one heading row.
RowStealth == StandingsRow(8, PlainName(Stealth), Ten, Pct750)

RowDevils == StandingsRow(9, LinkSpans(Devils, DEV), <<"1", "5">>, <<".", "6", "5", "0">>)

RowShort == StandingsRow(7, PlainName(Stealth), Ten, Pct750)

RowEmpty == StandingsRow(8, PlainName(<<>>), <<>>, <<>>)

RowHeading == StandingsRow(8, PlainName(<<"T", "e", "a", "m">>), <<"W">>, <<"G", "P">>)

StandingsPosRows == {RowStealth, RowDevils, RowShort, RowEmpty, RowHeading}

StandingsFieldRows ==
  {StandingsRow(n, nc, Ten, Pct750) : n \in {7, 8, 9}, nc \in NameCells}
  \cup {StandingsRow(8, PlainName(Stealth), t1, t2) : t1 \in NumTexts, t2 \in NumTexts}

TextRow(texts) == [i \in 1..Len(texts) |-> TextCell(texts[i])]

ExampleTable ==
  Table({}, <<>>,
    <<TextRow(<<Stealth, Ten, <<"7">>, <<"2">>, <<"1">>, <<"0">>, <<"1", "5">>, Pct750>>),
      TextRow(<<Devils, Ten, <<"6">>, <<"3">>, <<"1">>, <<"0">>, <<"1", "3">>,
                <<".", "6", "5", "0">>>>),
      TextRow(<<<<>>, <<>>, <<>>, <<>>, <<>>, <<>>, <<>>, <<>>>>)>>)

StandingsParsePages ==
  {<<Table({}, <<>>, <<r>>)>> : r \in StandingsFieldRows}
  \cup {<<Table({}, <<>>, rows)>> : rows \in SeqsUpTo(StandingsPosRows, MaxRows)}
  \cup {<<Table({}, <<>>, rows), Table({}, <<>>, <<r>>)>> :
          rows \in SeqsUpTo({RowStealth, RowShort}, MaxRows), r \in {RowStealth, RowDevils}}
  \cup {<<ExampleTable>>}

\* Stats rows: two that decode, one too short, one with an empty name, the
\* two heading rows written with <td> cells.
StatStealth == StatsRow(19, <<"1">>, LinkName(Stealth), Ten, Pct750)

StatDevils == StatsRow(16, <<"7">>, SpanLinks(Devils, DEV), <<"1", "5">>, <<"2", ".", "5">>)

StatShort == StatsRow(15, <<"2">>, LinkName(Stealth), Ten, Pct750)

StatEmpty == StatsRow(19, <<"3">>, PlainName(<<>>), Ten, Pct750)

StatsPosRows ==
  {StatStealth, StatDevils, StatShort, StatEmpty,
   StatsHeading("td", <<"P", "l", "a", "y", "e", "r">>), StatsHeading("td", <<"G", "o", "a", "l", "i", "e">>)}

StatsFieldRows ==
  {StatsRow(n, rank, nc, Ten, Pct750) :
    n \in {15, 16, 19}, rank \in {<<>>, <<"7">>}, nc \in NameCells}
  \cup {StatsRow(n, <<"7">>, PlainName(Stealth), t1, t2) :
          n \in {16, 19}, t1 \in NumTexts, t2 \in NumTexts}

\* A table of class leaders under a <thead> heading that names the player.
StatsTable(rows) == Table({"leaders"}, <<StatsHeading("th", <<"P", "l", "a", "y", "e", "r">>)>>, rows)

StatsWrappers(rows) ==
  {StatsTable(rows),
   Table({}, <<>>, rows),
   Table({"leaders"}, <<>>, rows),
   Table({}, <<StatsHeading("th", <<"G", "o", "a", "l", "i", "e">>)>>, rows)}

StatsParsePages ==
  {<<StatsTable(<<r>>)>> : r \in StatsFieldRows}
  \cup UNION {{<<t>> : t \in StatsWrappers(rows)} : rows \in SeqsUpTo(StatsPosRows, MaxRows)}
  \cup UNION {{<<StatsTable(rows), t>> : t \in StatsWrappers(<<r>>)} :
          rows \in SeqsUpTo({StatStealth, StatShort}, MaxRows),
          r \in {StatStealth, StatDevils}}

ParsePages(kind) ==
  IF kind = "standings" THEN StandingsParsePages ELSE StatsParsePages

\* The pages the site serves to the scrape operations.
StandingsSiteTables ==
  {Table({}, <<>>, <<RowShort>>),
   Table({}, <<>>, <<RowStealth>>),
   Table({}, <<>>, <<RowEmpty>>),
   Table({}, <<>>, <<RowHeading, RowDevils, RowShort, RowStealth>>)}

StandingsSitePages == SeqsUpTo(StandingsSiteTables, MaxStandingsTables)

StatsSitePages ==
  {<<StatsTable(<<>>)>>,
   <<StatsTable(<<StatStealth>>)>>,
   <<StatsTable(<<StatDevils, StatStealth>>)>>}

\* What a fetch can end in: a page, a non-ok response, a rejected fetch.
Ok(html) == [status |-> "ok", html |-> html]

Failures == {[status |-> "notOk", html |-> <<>>], [status |-> "rejected", html |-> <<>>]}

Responses(pages) == {Ok(html) : html \in pages} \cup Failures

(***************************************************************************)
(* State.                                                                  *)
(*   op         the scrape operation that was called ("none" before)       *)
(*   pc         "idle", "fetch" (a fetch is awaited), "returned" (the      *)
(*              promise resolved with the snapshot), "rejected"            *)
(*   k          the one-based index of the division being scraped          *)
(*   divisions  the divisions object being filled                          *)
(*   issued     the fetches that were started, in order: the operation and *)
(*              what it asked for                                          *)
(*   fetched    the fetches that have ended, in order: what was asked for  *)
(*              and the response                                           *)
(*   snapshot   the snapshot returned (<<>> before)                        *)
(*   clock      the UTC day                                                *)
(*   kind, page, parsed, decoded                                           *)
(*              the page handed to one scraper's parsing and the record    *)
(*              lists it produced                                          *)
(*   mpc        the position of main ("off": no process is running)        *)
(*   argv       whether --force is among the arguments                     *)
(*   today, exist                                                          *)
(*              main's constants: the date and which snapshots exist       *)
(*   files      per data kind, the snapshot files by date                  *)
(*   index      per data kind, the index file (<<>> when absent)           *)
(*   runs       the number of processes started                            *)
(*   atStart    files and index as they were when the process started      *)
(*   items, isMobile, sampled                                              *)
(*              the snapshots handed to sampleSnapshots (each item is its  *)
(*              own identity), the device flag, and the list returned      *)
(*              (<<>> before the call)                                     *)
(*   lpc        the position of App's loadData ("off": not mounted)        *)
(*   loading, error, snapshots, playerStatsSnapshots,                      *)
(*   goalieStatsSnapshots, selectedDivision                                *)
(*              the state of the App component                             *)
(*   hash       window.location.hash                                       *)
(*   event      the event App handled last and the division it carried     *)
(*   chart      the chart component rendered ("none" before)               *)
(*   statsSnapshots, division, statType, topN                              *)
(*              the props of the chart component                           *)
(*   rankedSnapshots, chartData                                            *)
(*              the memoized values of the chart component                 *)
(***************************************************************************)
VARIABLES op, pc, k, divisions, issued, fetched, snapshot, clock,
          kind, page, parsed, decoded,
          mpc, argv, today, exist, files, index, runs, atStart,
          items, isMobile, sampled,
          lpc, loading, error, snapshots, playerStatsSnapshots, goalieStatsSnapshots,
          selectedDivision, hash, event,
          chart, statsSnapshots, division, statType, topN, rankedSnapshots, chartData

vars ==
  <<op, pc, k, divisions, issued, fetched, snapshot, clock, kind, page, parsed, decoded,
    mpc, argv, today, exist, files, index, runs, atStart,
    items, isMobile, sampled,
    lpc, loading, error, snapshots, playerStatsSnapshots, goalieStatsSnapshots,
    selectedDivision, hash, event,
    chart, statsSnapshots, division, statType, topN, rankedSnapshots, chartData>>

scrapeVars == <<op, pc, k, divisions, issued, fetched, snapshot, clock>>

parseVars == <<kind, page, parsed, decoded>>

mainVars == <<mpc, argv, today, exist, files, index, runs, atStart>>

sampleVars == <<items, isMobile, sampled>>

appVars ==
  <<lpc, loading, error, snapshots, playerStatsSnapshots, goalieStatsSnapshots,
    selectedDivision, hash, event>>

chartVars == <<chart, statsSnapshots, division, statType, topN, rankedSnapshots, chartData>>

frontVars == <<sampleVars, appVars, chartVars>>

DivisionSet == {DIVISION_NAMES[i] : i \in 1..Len(DIVISION_NAMES)}

\* The division assigned only when it has records.
setDivisionFound(divs, name, stats) ==
  IF stats = <<>>
  THEN divs
  ELSE [n \in DOMAIN divs \cup {name} |-> IF n = name THEN stats ELSE divs[n]]

\* divisions[name] = stats
setDivision(divs, name, stats) ==
  [n \in DOMAIN divs \cup {name} |-> IF n = name THEN stats ELSE divs[n]]

\* A catch block that logs and assigns nothing.
onDivisionErrorLogOnly(divs, name) == divs

\* The catch block of the division loop.
onDivisionError(divs, name) == setDivision(divs, name, <<>>)

getTodayISO == clock

\* scrapeStandings without the check of response.ok.
standingsOutcomeUnchecked(r) == "returned"

\* How scrapeStandings ends on a response.
standingsOutcome(r) == IF r.status = "ok" THEN "returned" ELSE "rejected"

\* fetch(url): the request an operation starts with.
firstFetch(o) ==
  <<[op |-> o, name |-> IF o = "standings" THEN "standings" ELSE DIVISION_NAMES[1]]>>

\* A loop that asks again for a division whose fetch failed.
nextFetchRetry(o, j, r) ==
  (IF r.status # "ok" THEN <<[op |-> o, name |-> DIVISION_NAMES[j]]>> ELSE <<>>)
  \o (IF j < Len(DIVISION_NAMES) THEN <<[op |-> o, name |-> DIVISION_NAMES[j + 1]]>> ELSE <<>>)

\* The requests the division loop starts once the fetch of division j has
\* ended in r: the next division's, if any.
nextFetch(o, j, r) ==
  IF j < Len(DIVISION_NAMES) THEN <<[op |-> o, name |-> DIVISION_NAMES[j + 1]]>> ELSE <<>>

\* No process of main: nothing on disk, nothing read.
Kinds == <<"standings", "player", "goalie">>

KindSet == {Kinds[i] : i \in 1..Len(Kinds)}

MainOff ==
  /\ mpc = "off"
  /\ argv = FALSE
  /\ today = <<>>
  /\ exist = [kd \in KindSet |-> FALSE]
  /\ files = [kd \in KindSet |-> <<>>]
  /\ index = [kd \in KindSet |-> <<>>]
  /\ runs = 0
  /\ atStart = <<>>

\* The error state when no error is shown.
null == "null"

\* No call of sampleSnapshots was made.
SampleOff ==
  /\ items = <<>>
  /\ isMobile = FALSE
  /\ sampled = <<>>

\* The App component as useState creates it, before its effect has run.
AppState ==
  /\ loading = TRUE
  /\ error = null
  /\ snapshots = <<>>
  /\ playerStatsSnapshots = <<>>
  /\ goalieStatsSnapshots = <<>>
  /\ selectedDivision = DIVISION_NAMES[1]
  /\ hash = <<>>
  /\ event = [type |-> "none", division |-> "none"]

AppOff ==
  /\ lpc = "off"
  /\ AppState

\* No chart component is rendered.
ChartOff ==
  /\ chart = "none"
  /\ statsSnapshots = <<>>
  /\ division = DIVISION_NAMES[1]
  /\ statType = "none"
  /\ topN = 0
  /\ rankedSnapshots = <<>>
  /\ chartData = <<>>

scrapeStandingsCall ==
  /\ pc = "idle"
  /\ op' = "standings"
  /\ pc' = "fetch"
  /\ issued' = issued \o firstFetch("standings")
  /\ UNCHANGED <<k, divisions, fetched, snapshot, clock, parseVars, mainVars, frontVars>>

scrapeStandingsResponse ==
  /\ pc = "fetch" /\ op = "standings"
  /\ \E r \in Responses(StandingsSitePages) :
       /\ fetched' = Append(fetched, [name |-> "standings", resp |-> r])
       /\ pc' = standingsOutcome(r)
       /\ IF r.status = "ok"
          THEN /\ divisions' = standingsDivisions(r.html)
               /\ snapshot' = [date |-> getTodayISO, divisions |-> divisions']
          ELSE UNCHANGED <<divisions, snapshot>>
  /\ UNCHANGED <<op, k, issued, clock, parseVars, mainVars, frontVars>>

parseDivision(o, html) ==
  IF o = "player" THEN parsePlayerStats(html) ELSE parseGoalieStats(html)

\* scrapePlayerStats() or scrapeGoalieStats() up to the first await.
scrapeStatsCall ==
  /\ pc = "idle"
  /\ op' \in {"player", "goalie"}
  /\ pc' = "fetch"
  /\ k' = 1
  /\ issued' = issued \o firstFetch(op')
  /\ UNCHANGED <<divisions, fetched, snapshot, clock, parseVars, mainVars, frontVars>>

\* The awaited fetch of division k ends; the loop goes on to the next
\* division or the snapshot is returned.
scrapeStatsResponse ==
  /\ pc = "fetch" /\ op \in {"player", "goalie"}
  /\ \E r \in Responses(StatsSitePages) :
       /\ fetched' = Append(fetched, [name |-> DIVISION_NAMES[k], resp |-> r])
       /\ divisions' =
            IF r.status = "ok"
            THEN setDivision(divisions, DIVISION_NAMES[k], parseDivision(op, r.html))
            ELSE onDivisionError(divisions, DIVISION_NAMES[k])
       /\ issued' = issued \o nextFetch(op, k, r)
       /\ IF k < Len(DIVISION_NAMES)
          THEN /\ k' = k + 1
               /\ UNCHANGED <<pc, snapshot>>
          ELSE /\ pc' = "returned"
               /\ snapshot' = [date |-> getTodayISO, divisions |-> divisions']
               /\ UNCHANGED k
  /\ UNCHANGED <<op, clock, parseVars, mainVars, frontVars>>

\* Midnight UTC passes before or during a scrape (the clock is not read
\* after the snapshot is made).
Tick ==
  /\ pc \in {"idle", "fetch"}
  /\ clock < MaxDays
  /\ clock' = clock + 1
  /\ UNCHANGED <<op, pc, k, divisions, issued, fetched, snapshot, parseVars, mainVars, frontVars>>

Init ==
  /\ op = "none"
  /\ pc = "idle"
  /\ k = 0
  /\ divisions = <<>>
  /\ issued = <<>>
  /\ fetched = <<>>
  /\ snapshot = <<>>
  /\ clock = 0
  /\ kind = "none"
  /\ page = <<>>
  /\ parsed = FALSE
  /\ decoded = <<>>
  /\ MainOff
  /\ SampleOff
  /\ AppOff
  /\ ChartOff

Next ==
  \/ scrapeStandingsCall
  \/ scrapeStandingsResponse
  \/ scrapeStatsCall
  \/ scrapeStatsResponse
  \/ Tick

Spec == Init /\ [][Next]_vars

(***************************************************************************)
(* The parsing of one page by one scraper, as a function of the page:      *)
(* the page is drawn at the start, the scraper's parsing is applied once.  *)
(***************************************************************************)
ParseInit ==
  /\ op = "none"
  /\ pc = "idle"
  /\ k = 0
  /\ divisions = <<>>
  /\ issued = <<>>
  /\ fetched = <<>>
  /\ snapshot = <<>>
  /\ clock = 0
  /\ kind \in {"standings", "player", "goalie"}
  /\ page \in ParsePages(kind)
  /\ parsed = FALSE
  /\ decoded = <<>>
  /\ MainOff
  /\ SampleOff
  /\ AppOff
  /\ ChartOff

\* scrapeStandings on the page: the lists of the four divisions.
parseStandingsPage ==
  /\ kind = "standings" /\ ~parsed
  /\ parsed' = TRUE
  /\ decoded' = [i \in 1..Len(DIVISION_NAMES) |-> standingsDivisions(page)[DIVISION_NAMES[i]]]
  /\ UNCHANGED <<kind, page, scrapeVars, mainVars, frontVars>>

\* scrapeDivisionStats on the page.
parsePlayerPage ==
  /\ kind = "player" /\ ~parsed
  /\ parsed' = TRUE
  /\ decoded' = <<parsePlayerStats(page)>>
  /\ UNCHANGED <<kind, page, scrapeVars, mainVars, frontVars>>

\* scrapeDivisionGoalieStats on the page.
parseGoaliePage ==
  /\ kind = "goalie" /\ ~parsed
  /\ parsed' = TRUE
  /\ decoded' = <<parseGoalieStats(page)>>
  /\ UNCHANGED <<kind, page, scrapeVars, mainVars, frontVars>>

ParseNext == parseStandingsPage \/ parsePlayerPage \/ parseGoaliePage

SpecParse == ParseInit /\ [][ParseNext]_vars

(***************************************************************************)
(* main (src/unnamed/part_000): the snapshot files and the index files of  *)
(* the three data kinds, and one process of main after the other.  A date  *)
(* is held as the number of its UTC day; the strings the index is sorted   *)
(* by are made from it.  A scrape awaited by main is taken as one step:    *)
(* the responses of its fetches are drawn, the operation's loop is run on  *)
(* them, and what main does with the snapshot follows in the same step.    *)
(***************************************************************************)
MaxRuns == 2

\* The date string of a day: day 0 is 2025-12-31, day n is 2026-01-n.
ISODate(day) ==
  IF day = 0
  THEN <<"2", "0", "2", "5", "-", "1", "2", "-", "3", "1">>
  ELSE <<"2", "0", "2", "6", "-", "0", "1", "-">>
       \o <<Digits[(day \div 10) + 1], Digits[(day % 10) + 1]>>

CharOrder(c) == IF IsDigit(c) THEN DigitVal(c) + 1 ELSE 0

\* a.localeCompare(b) on texts of digits and hyphens: -1, 0 or 1.
RECURSIVE localeCompare(_, _)
localeCompare(a, b) ==
  IF a = <<>> /\ b = <<>> THEN 0
  ELSE IF a = <<>> THEN 0 - 1
  ELSE IF b = <<>> THEN 1
  ELSE IF CharOrder(Head(a)) < CharOrder(Head(b)) THEN 0 - 1
  ELSE IF CharOrder(Head(a)) > CharOrder(Head(b)) THEN 1
  ELSE localeCompare(Tail(a), Tail(b))

\* The comparator of the index: (a, b) => b.localeCompare(a).
newestFirst(a, b) == localeCompare(ISODate(b), ISODate(a))

RECURSIVE insertSorted(_, _)
insertSorted(sorted, d) ==
  IF sorted = <<>> THEN <<d>>
  ELSE IF newestFirst(sorted[Len(sorted)], d) <= 0
  THEN Append(sorted, d)
  ELSE Append(insertSorted(SubSeq(sorted, 1, Len(sorted) - 1), d), sorted[Len(sorted)])

RECURSIVE sortStable(_)
sortStable(dates) ==
  IF dates = <<>> THEN <<>>
  ELSE insertSorted(sortStable(SubSeq(dates, 1, Len(dates) - 1)), dates[Len(dates)])

\* The dates left in the order they were pushed.
sortDatesNot(dates) == dates

\* index.dates.sort((a, b) => b.localeCompare(a))
sortDates(dates) == sortStable(dates)

\* new Date().toISOString(): the day and the process that reads the time.
now == [day |-> clock, run |-> runs]

loadIndex(kd) ==
  IF index[kd] # <<>>
  THEN index[kd]
  ELSE [divisions |-> DIVISION_NAMES, dates |-> <<>>, lastUpdated |-> now]

datesIncludes(dates, date) == \E i \in 1..Len(dates) : dates[i] = date

\* The date pushed whether or not the index has it.
addDateAlways(dates, date) == sortDates(Append(dates, date))

\* if (!index.dates.includes(snapshot.date)) { push; sort }
addDate(dates, date) ==
  IF ~datesIncludes(dates, date) THEN sortDates(Append(dates, date)) ELSE dates

\* fs.writeFileSync(snapshotPath, ...)
writeSnapshotFile(fs, kd, snap) ==
  [fs EXCEPT ![kd] = [d \in DOMAIN fs[kd] \cup {snap.date} |->
                         IF d = snap.date THEN snap ELSE fs[kd][d]]]

\* The index file after saveSnapshot / savePlayerStatsSnapshot /
\* saveGoalieStatsSnapshot.
savedIndex(kd, snap) ==
  [index EXCEPT ![kd] = [divisions |-> loadIndex(kd).divisions,
                         dates |-> addDate(loadIndex(kd).dates, snap.date),
                         lastUpdated |-> now]]

\* snapshotExists(date), playerStatsSnapshotExists, goalieStatsSnapshotExists
snapshotExists(kd, date) == date \in DOMAIN files[kd]

RECURSIVE SumLen(_)
SumLen(lists) == IF lists = <<>> THEN 0 ELSE Len(Head(lists)) + SumLen(Tail(lists))

\* Object.values(snapshot.divisions).reduce((sum, x) => sum + x.length, 0)
totalRecords(divs) ==
  SumLen([i \in 1..Len(DIVISION_NAMES) |->
           IF DIVISION_NAMES[i] \in DOMAIN divs THEN divs[DIVISION_NAMES[i]] ELSE <<>>])

\* Zero teams taken as no reason to stop.
noTeamsFoundIgnored(snap) == FALSE

\* if (totalTeams === 0) { ...; process.exit(1) }
noTeamsFound(snap) == totalRecords(snap.divisions) = 0

\* Zero players or goalies taken as zero teams are: process.exit(1).
afterStatsCountFatal(snap, then) ==
  IF totalRecords(snap.divisions) = 0 THEN "exit1" ELSE then

\* if (totalPlayers === 0) { console.error("Warning: ...") } else { ... }:
\* either way main goes on.
afterStatsCount(snap, then) == then

\* The kind scraped whether or not its snapshot exists.
dueAlways(kd) == TRUE

\* if (forceRun || !standingsExist), and so for the other kinds
due(kd) == argv \/ ~exist[kd]

\* What the site answers while main runs: for the standings page two pages
\* with teams, one without a table and one whose table has no team; for
\* the four division pages of a stats kind, all fetches failing, or a mix
\* of pages and a failure.
MainStandingsPages ==
  {<<>>,
   <<Table({}, <<>>, <<RowEmpty>>)>>,
   <<Table({}, <<>>, <<RowStealth>>)>>,
   <<Table({}, <<>>, <<RowHeading, RowDevils, RowShort, RowStealth>>)>>}

MainStatsResponses ==
  {[i \in 1..Len(DIVISION_NAMES) |-> [status |-> "rejected", html |-> <<>>]],
   <<Ok(<<StatsTable(<<StatDevils, StatStealth>>)>>),
     [status |-> "notOk", html |-> <<>>],
     Ok(<<StatsTable(<<>>)>>),
     Ok(<<StatsTable(<<StatStealth>>)>>)>>}

\* The division loop of scrapePlayerStats / scrapeGoalieStats run on the
\* responses rs of its four fetches, from division j on.
RECURSIVE statsLoop(_, _, _, _)
statsLoop(o, rs, j, divs) ==
  IF j > Len(DIVISION_NAMES)
  THEN divs
  ELSE statsLoop(o, rs, j + 1,
         IF rs[j].status = "ok"
         THEN setDivision(divs, DIVISION_NAMES[j], parseDivision(o, rs[j].html))
         ELSE onDivisionError(divs, DIVISION_NAMES[j]))

\* The fetches that loop starts and sees end.
statsIssued(o, rs) ==
  firstFetch(o) \o ConcatAll([j \in 1..Len(DIVISION_NAMES) |-> nextFetch(o, j, rs[j])])

statsFetched(rs) ==
  [j \in 1..Len(DIVISION_NAMES) |-> [name |-> DIVISION_NAMES[j], resp |-> rs[j]]]

todayUTC == clock

Ended == {"off", "done", "exit1"}

\* A process of main starts: the arguments, the date and the existence of
\* today's snapshots are read; with all three there and no --force it ends.
mainStart ==
  /\ mpc \in Ended
  /\ runs < MaxRuns
  /\ runs' = runs + 1
  /\ argv' \in BOOLEAN
  /\ today' = todayUTC
  /\ exist' = [kd \in KindSet |-> snapshotExists(kd, today')]
  /\ atStart' = [files |-> files, index |-> index]
  /\ issued' = <<>>
  /\ fetched' = <<>>
  /\ snapshot' = <<>>
  /\ mpc' = IF ~argv' /\ \A kd \in KindSet : exist'[kd] THEN "done" ELSE "standings"
  /\ UNCHANGED <<op, pc, k, divisions, clock, files, index, parseVars, frontVars>>

\* await scrapeStandings(), the check of the team count, saveSnapshot.
mainStandings ==
  /\ mpc = "standings"
  /\ IF due("standings")
     THEN \E r \in Responses(MainStandingsPages) :
            /\ issued' = issued \o firstFetch("standings")
            /\ fetched' = Append(fetched, [name |-> "standings", resp |-> r])
            /\ IF standingsOutcome(r) = "rejected"
               THEN /\ mpc' = "exit1"
                    /\ UNCHANGED <<snapshot, files, index>>
               ELSE /\ snapshot' = [date |-> getTodayISO,
                                    divisions |-> standingsDivisions(r.html)]
                    /\ IF noTeamsFound(snapshot')
                       THEN /\ mpc' = "exit1"
                            /\ UNCHANGED <<files, index>>
                       ELSE /\ files' = writeSnapshotFile(files, "standings", snapshot')
                            /\ index' = savedIndex("standings", snapshot')
                            /\ mpc' = "player"
     ELSE /\ mpc' = "player"
          /\ UNCHANGED <<issued, fetched, snapshot, files, index>>
  /\ UNCHANGED <<op, pc, k, divisions, clock, argv, today, exist, runs, atStart, parseVars, frontVars>>

\* await scrapePlayerStats() / scrapeGoalieStats(), the warning on zero
\* records, the save.
mainStats(o, then) ==
  /\ mpc = o
  /\ IF due(o)
     THEN \E rs \in MainStatsResponses :
            /\ issued' = issued \o statsIssued(o, rs)
            /\ fetched' = fetched \o statsFetched(rs)
            /\ snapshot' = [date |-> getTodayISO, divisions |-> statsLoop(o, rs, 1, <<>>)]
            /\ files' = writeSnapshotFile(files, o, snapshot')
            /\ index' = savedIndex(o, snapshot')
            /\ mpc' = afterStatsCount(snapshot', then)
     ELSE /\ mpc' = then
          /\ UNCHANGED <<issued, fetched, snapshot, files, index>>
  /\ UNCHANGED <<op, pc, k, divisions, clock, argv, today, exist, runs, atStart, parseVars, frontVars>>

mainPlayerStats == mainStats("player", "goalie")

mainGoalieStats == mainStats("goalie", "done")

MainNext ==
  \/ mainStart
  \/ mainStandings
  \/ mainPlayerStats
  \/ mainGoalieStats
  \/ Tick

SpecMain == Init /\ [][MainNext]_vars

(***************************************************************************)
(* Runs of main that stop inside a save: the snapshot file is written      *)
(* (fs.writeFileSync of the snapshot) and the process ends before the      *)
(* index file is rewritten, because the second write throws (main's catch  *)
(* exits with status 1) or the process is killed.  What was scraped has no *)
(* part in the stop: one page and one tuple of responses are taken.        *)
(***************************************************************************)
StoppedStandingsPages == {<<Table({}, <<>>, <<RowStealth>>)>>}

StoppedStatsResponses ==
  {rs \in MainStatsResponses : \A j \in 1..Len(rs) : rs[j].status = "rejected"}

\* saveSnapshot stops after its first write.
mainStandingsStopped ==
  /\ mpc = "standings"
  /\ due("standings")
  /\ \E r \in {Ok(html) : html \in StoppedStandingsPages} :
       /\ standingsOutcome(r) # "rejected"
       /\ issued' = issued \o firstFetch("standings")
       /\ fetched' = Append(fetched, [name |-> "standings", resp |-> r])
       /\ snapshot' = [date |-> getTodayISO, divisions |-> standingsDivisions(r.html)]
       /\ ~noTeamsFound(snapshot')
       /\ files' = writeSnapshotFile(files, "standings", snapshot')
  /\ mpc' = "exit1"
  /\ UNCHANGED <<op, pc, k, divisions, clock, argv, today, exist, index, runs, atStart,
                 parseVars, frontVars>>

\* savePlayerStatsSnapshot / saveGoalieStatsSnapshot stops after its first write.
mainStatsStopped(o) ==
  /\ mpc = o
  /\ due(o)
  /\ \E rs \in StoppedStatsResponses :
       /\ issued' = issued \o statsIssued(o, rs)
       /\ fetched' = fetched \o statsFetched(rs)
       /\ snapshot' = [date |-> getTodayISO, divisions |-> statsLoop(o, rs, 1, <<>>)]
       /\ files' = writeSnapshotFile(files, o, snapshot')
  /\ mpc' = "exit1"
  /\ UNCHANGED <<op, pc, k, divisions, clock, argv, today, exist, index, runs, atStart,
                 parseVars, frontVars>>

mainPlayerStatsStopped == mainStatsStopped("player")

mainGoalieStatsStopped == mainStatsStopped("goalie")

StopNext ==
  \/ mainStart
  \/ mainStandings
  \/ mainPlayerStats
  \/ mainGoalieStats
  \/ mainStandingsStopped
  \/ mainPlayerStatsStopped
  \/ mainGoalieStatsStopped
  \/ Tick

SpecStop == Init /\ [][StopNext]_vars

(***************************************************************************)
(* The dashboard's sampling of snapshots for the charts                    *)
(* (frontend/sampleSnapshots.ts).  Arrays are sequences: the item at the   *)
(* zero-based index j of the code is the element j + 1.  The snapshots     *)
(* handed in are distinct objects; each is modelled by its own position    *)
(* in the input, which is also its identity for the !== of the code.       *)
(***************************************************************************)
DESKTOP_MAX_POINTS == 28

MOBILE_MAX_POINTS == 14

\* The longest list of snapshots handed to the sampling.
MaxSnapshots == 40

\* Math.round of num / den for num >= 0 and den > 0: halves are rounded up.
MathRound(num, den) == (2 * num + den) \div (2 * den)

\* Math.round(i * step) with step = (items.length - 1) / (targetCount - 1).
sampleIndex(len, targetCount, i) == MathRound(i * (len - 1), targetCount - 1)

\* sampleToCount: everything when short enough, else the first item, the
\* items at the rounded evenly spaced indexes, and the last item.
sampleToCount(its, targetCount) ==
  IF Len(its) <= targetCount
  THEN its
  ELSE <<its[1]>>
       \o [i \in 1..(targetCount - 2) |-> its[sampleIndex(Len(its), targetCount, i) + 1]]
       \o <<its[Len(its)]>>

\* for (let i = 0; i < desktopSampled.length; i += 2) push(desktopSampled[i])
everyOther(its) == [j \in 1..((Len(its) + 1) \div 2) |-> its[2 * j - 1]]

\* The last desktop item is never pushed again.
keepLastNever(mobileSampled, lastDesktopItem) == mobileSampled

\* if (mobileSampled[mobileSampled.length - 1] !== lastDesktopItem) push it
keepLast(mobileSampled, lastDesktopItem) ==
  IF mobileSampled[Len(mobileSampled)] # lastDesktopItem
  THEN Append(mobileSampled, lastDesktopItem)
  ELSE mobileSampled

sampleSnapshots(snaps, mobile) ==
  IF Len(snaps) = 0
  THEN snaps
  ELSE LET desktopSampled == sampleToCount(snaps, DESKTOP_MAX_POINTS) IN
         IF ~mobile
         THEN desktopSampled
         ELSE IF Len(desktopSampled) <= MOBILE_MAX_POINTS
              THEN desktopSampled
              ELSE keepLast(everyOther(desktopSampled),
                            desktopSampled[Len(desktopSampled)])

\* The call App makes while rendering: sampleSnapshots(snapshots, isMobile).
sampleSnapshotsCall ==
  /\ sampled = <<>>
  /\ sampled' = sampleSnapshots(items, isMobile)
  /\ UNCHANGED <<items, isMobile, scrapeVars, parseVars, mainVars, appVars, chartVars>>

\* The sampling as a function of its arguments: a list of up to
\* MaxSnapshots snapshots and the device flag are drawn at the start.
SampleInit ==
  /\ op = "none"
  /\ pc = "idle"
  /\ k = 0
  /\ divisions = <<>>
  /\ issued = <<>>
  /\ fetched = <<>>
  /\ snapshot = <<>>
  /\ clock = 0
  /\ kind = "none"
  /\ page = <<>>
  /\ parsed = FALSE
  /\ decoded = <<>>
  /\ MainOff
  /\ items \in {[i \in 1..n |-> i] : n \in 0..MaxSnapshots}
  /\ isMobile \in BOOLEAN
  /\ sampled = <<>>
  /\ AppOff
  /\ ChartOff

SampleNext == sampleSnapshotsCall

SpecSample == SampleInit /\ [][SampleNext]_vars

(***************************************************************************)
(* The dashboard's App component (unnamed/part_003): loadData and the      *)
(* division selection.  A loaded snapshot is the record of its date; an    *)
(* index or snapshot response is "ok", "notOk" (response.ok false),        *)
(* "invalid" (response.json() rejects) or "rejected" (fetch rejects).      *)
(* The URL hash is text, a sequence of characters, as the browser reports  *)
(* it: assigning window.location.hash percent-encodes the characters of    *)
(* the fragment percent-encode set, and reading it decodes nothing.        *)
(***************************************************************************)
\* The characters of a division name.
DivisionChars(name) ==
  CASE name = "1-BRODEUR" -> <<"1", "-", "B", "R", "O", "D", "E", "U", "R">>
    [] name = "2-MANNO" -> <<"2", "-", "M", "A", "N", "N", "O">>
    [] name = "3-STEVENS NORTH" -> <<"3", "-", "S", "T", "E", "V", "E", "N", "S", " ", "N", "O", "R", "T", "H">>
    [] name = "3-STEVENS SOUTH" -> <<"3", "-", "S", "T", "E", "V", "E", "N", "S", " ", "S", "O", "U", "T", "H">>

\* The fragment percent-encode set of the URL the browser keeps (of its
\* characters, those a text of this model can hold).
FragmentEncode(c) ==
  CASE c = " " -> <<"%", "2", "0">>
    [] c = "<" -> <<"%", "3", "C">>
    [] c = ">" -> <<"%", "3", "E">>
    [] OTHER -> <<c>>

\* window.location.hash after window.location.hash = text (text without "#").
locationHash(text) ==
  IF text = <<>> THEN <<>>
  ELSE <<"#">> \o ConcatAll([i \in 1..Len(text) |-> FragmentEncode(text[i])])

\* String.prototype.slice(1)
slice1(text) == IF text = <<>> THEN <<>> ELSE Tail(text)

\* DIVISION_NAMES.includes(hash)
includesDivision(text) == \E i \in 1..Len(DIVISION_NAMES) : DivisionChars(DIVISION_NAMES[i]) = text

\* The division whose name is the text.
divisionNamed(text) ==
  CHOOSE name \in DivisionSet : DivisionChars(name) = text

\* handleHashChange: the selection after it has read the hash h.
selectByHash(selected, h) ==
  IF slice1(h) # <<>> /\ includesDivision(slice1(h))
  THEN divisionNamed(slice1(h))
  ELSE selected

\* The hashes the browser reports for the URLs the page is opened with or
\* navigated to: none, "#", each division's shareable link, another text.
Hashes ==
  {<<>>, <<"#">>, <<"#", "x">>}
    \cup {locationHash(DivisionChars(name)) : name \in DivisionSet}

\* The number of dates of the data the dashboard is served.
MaxDates == 2

\* The dates of an index file as main writes it: distinct days, newest first.
DateLists == {sortDates(ds) : ds \in {ds \in SeqsUpTo(1..MaxDates, MaxDates) :
                                       \A i, j \in 1..Len(ds) : i < j => ds[i] < ds[j]}}

Statuses == {"ok", "notOk", "invalid", "rejected"}

\* The response to an index request and to the requests of its snapshots
\* (a snapshot whose json() rejects does what a rejected fetch does).
IndexResponses ==
  {[status |-> st, dates |-> <<>>, snaps |-> <<>>] : st \in Statuses \ {"ok"}}
    \cup {[status |-> "ok", dates |-> ds, snaps |-> sn] :
            ds \in DateLists, sn \in SeqsUpTo(Statuses \ {"invalid"}, MaxDates)}

WellFormed(r) == Len(r.snaps) = Len(r.dates)

\* a.date.localeCompare(b.date)
byDate(a, b) == localeCompare(ISODate(a.date), ISODate(b.date))

RECURSIVE insertByDate(_, _)
insertByDate(sorted, s) ==
  IF sorted = <<>> THEN <<s>>
  ELSE IF byDate(sorted[Len(sorted)], s) <= 0
  THEN Append(sorted, s)
  ELSE Append(insertByDate(SubSeq(sorted, 1, Len(sorted) - 1), s), sorted[Len(sorted)])

RECURSIVE sortByDate(_)
sortByDate(snaps) ==
  IF snaps = <<>> THEN <<>>
  ELSE insertByDate(sortByDate(SubSeq(snaps, 1, Len(snaps) - 1)), snaps[Len(snaps)])

\* Promise.all rejects when a snapshot's fetch or json() rejects.
allRejects(r) == \E i \in 1..Len(r.snaps) : r.snaps[i] \in {"invalid", "rejected"}

RECURSIVE loadedFrom(_, _)
\* The snapshots that were loaded, in the order of index.dates (null filtered).
loadedFrom(r, i) ==
  IF i > Len(r.dates) THEN <<>>
  ELSE (IF r.snaps[i] = "ok" THEN <<[date |-> r.dates[i]]>> ELSE <<>>) \o loadedFrom(r, i + 1)

validSnapshots(r) == sortByDate(loadedFrom(r, 1))

\* What the standings part of loadData throws: "none" when it does not.
standingsError(r) ==
  CASE r.status = "rejected" -> "Failed to fetch"
    [] r.status = "notOk" -> "No data available yet. Run the scraper first: yarn scrape"
    [] r.status = "invalid" -> "Unexpected token"
    [] r.dates = <<>> -> "No snapshots available yet. Run: yarn scrape"
    [] allRejects(r) -> "Failed to fetch"
    [] OTHER -> "none"

\* The stats failure is shown like a standings failure.
statsErrorShown(err) == "Failed to fetch"

\* catch (playerStatsErr) / catch (goalieStatsErr): a warning is logged.
statsError(err) == err

\* Whether the try block of a stats kind throws (into its own catch).
statsThrows(r) == r.status \in {"rejected", "invalid"} \/ (r.status = "ok" /\ allRejects(r))

\* Whether the stats state is set: index ok with dates, all snapshots settled.
statsLoaded(r) == r.status = "ok" /\ r.dates # <<>> /\ ~allRejects(r)

\* useEffect on mount: loadData runs to its first await (setLoading(true),
\* setError(null)), then handleHashChange is called.
mount ==
  /\ lpc = "off"
  /\ loading' = TRUE
  /\ error' = null
  /\ selectedDivision' = selectByHash(selectedDivision, hash)
  /\ lpc' = "standings"
  /\ event' = [type |-> "mount", division |-> "none"]
  /\ UNCHANGED <<snapshots, playerStatsSnapshots, goalieStatsSnapshots, hash>>
  /\ UNCHANGED <<scrapeVars, parseVars, mainVars, sampleVars, chartVars>>

\* loadData from the index request to setSnapshots, or to the outer catch
\* and finally.
loadStandings ==
  /\ lpc = "standings"
  /\ \E r \in IndexResponses :
       /\ WellFormed(r)
       /\ IF standingsError(r) # "none"
          THEN /\ error' = standingsError(r)
               /\ loading' = FALSE
               /\ lpc' = "finished"
               /\ UNCHANGED snapshots
          ELSE /\ snapshots' = validSnapshots(r)
               /\ lpc' = "player"
               /\ UNCHANGED <<error, loading>>
  /\ UNCHANGED <<playerStatsSnapshots, goalieStatsSnapshots, selectedDivision, hash, event>>
  /\ UNCHANGED <<scrapeVars, parseVars, mainVars, sampleVars, chartVars>>

\* The inner try of the player stats.
loadPlayerStats ==
  /\ lpc = "player"
  /\ \E r \in IndexResponses :
       /\ WellFormed(r)
       /\ playerStatsSnapshots' =
            IF statsLoaded(r) THEN validSnapshots(r) ELSE playerStatsSnapshots
       /\ error' = IF statsThrows(r) THEN statsError(error) ELSE error
  /\ lpc' = "goalie"
  /\ UNCHANGED <<loading, snapshots, goalieStatsSnapshots, selectedDivision, hash, event>>
  /\ UNCHANGED <<scrapeVars, parseVars, mainVars, sampleVars, chartVars>>

\* The inner try of the goalie stats, then finally.
loadGoalieStats ==
  /\ lpc = "goalie"
  /\ \E r \in IndexResponses :
       /\ WellFormed(r)
       /\ goalieStatsSnapshots' =
            IF statsLoaded(r) THEN validSnapshots(r) ELSE goalieStatsSnapshots
       /\ error' = IF statsThrows(r) THEN statsError(error) ELSE error
  /\ loading' = FALSE
  /\ lpc' = "finished"
  /\ UNCHANGED <<snapshots, playerStatsSnapshots, selectedDivision, hash, event>>
  /\ UNCHANGED <<scrapeVars, parseVars, mainVars, sampleVars, chartVars>>

\* The Try Again button of the error view calls loadData.
retry ==
  /\ lpc = "finished"
  /\ ~loading
  /\ error # null
  /\ loading' = TRUE
  /\ error' = null
  /\ lpc' = "standings"
  /\ event' = [type |-> "retry", division |-> "none"]
  /\ UNCHANGED <<snapshots, playerStatsSnapshots, goalieStatsSnapshots, selectedDivision, hash>>
  /\ UNCHANGED <<scrapeVars, parseVars, mainVars, sampleVars, chartVars>>

\* The user navigates to another hash of the page.
navigate ==
  /\ lpc # "off"
  /\ hash' \in Hashes
  /\ event' = [type |-> "navigate", division |-> "none"]
  /\ UNCHANGED <<lpc, loading, error, snapshots, playerStatsSnapshots,
                 goalieStatsSnapshots, selectedDivision>>
  /\ UNCHANGED <<scrapeVars, parseVars, mainVars, sampleVars, chartVars>>

\* The hashchange event.
handleHashChange ==
  /\ lpc # "off"
  /\ selectedDivision' = selectByHash(selectedDivision, hash)
  /\ event' = [type |-> "hashchange", division |-> "none"]
  /\ UNCHANGED <<lpc, loading, error, snapshots, playerStatsSnapshots,
                 goalieStatsSnapshots, hash>>
  /\ UNCHANGED <<scrapeVars, parseVars, mainVars, sampleVars, chartVars>>

\* A click on a button of the division toggle, which the dashboard view
\* (neither loading nor error) shows.
handleDivisionChange ==
  /\ lpc # "off"
  /\ ~loading
  /\ error = null
  /\ \E name \in DivisionSet :
       /\ selectedDivision' = name
       /\ hash' = locationHash(DivisionChars(name))
       /\ event' = [type |-> "click", division |-> name]
  /\ UNCHANGED <<lpc, loading, error, snapshots, playerStatsSnapshots, goalieStatsSnapshots>>
  /\ UNCHANGED <<scrapeVars, parseVars, mainVars, sampleVars, chartVars>>

\* The page is opened with some hash in its URL; nothing else has run.
AppInit ==
  /\ op = "none"
  /\ pc = "idle"
  /\ k = 0
  /\ divisions = <<>>
  /\ issued = <<>>
  /\ fetched = <<>>
  /\ snapshot = <<>>
  /\ clock = 0
  /\ kind = "none"
  /\ page = <<>>
  /\ parsed = FALSE
  /\ decoded = <<>>
  /\ MainOff
  /\ SampleOff
  /\ lpc = "off"
  /\ loading = TRUE
  /\ error = null
  /\ snapshots = <<>>
  /\ playerStatsSnapshots = <<>>
  /\ goalieStatsSnapshots = <<>>
  /\ selectedDivision = DIVISION_NAMES[1]
  /\ hash \in Hashes
  /\ event = [type |-> "none", division |-> "none"]
  /\ ChartOff

AppNext ==
  \/ mount
  \/ loadStandings
  \/ loadPlayerStats
  \/ loadGoalieStats
  \/ retry
  \/ navigate
  \/ handleHashChange
  \/ handleDivisionChange

SpecApp == AppInit /\ [][AppNext]_vars

(***************************************************************************)
(* The stats charts of the dashboard (frontend/GoalieStatsChart.tsx and    *)
(* PlayerStatsChart, unnamed/part_002): the ranking of each snapshot and   *)
(* the datasets drawn.  Names are texts; gaa is in hundredths and svPct in *)
(* thousandths; a point of a dataset is a rank or a gap (null); a chart    *)
(* without data (chartData null) is <<>>.                                  *)
(***************************************************************************)
GOALIE_MIN_GP == 6

\* The most rows, over all its snapshots, of the data handed to a chart.
MaxChartRows == 3

Ann == <<"A", "n", "n">>

Bob == <<"B", "o", "b">>

Cy == <<"C", "y">>

\* The place of a letter in the alphabet, whatever its case (0: no letter).
LetterOrder(c) ==
  IF \E i \in 1..26 : LowerCase[i] = toLowerCaseChar(c)
  THEN CHOOSE i \in 1..26 : LowerCase[i] = toLowerCaseChar(c)
  ELSE 0

RECURSIVE compareLetters(_, _)
compareLetters(a, b) ==
  IF a = <<>> /\ b = <<>> THEN 0
  ELSE IF a = <<>> THEN 0 - 1
  ELSE IF b = <<>> THEN 1
  ELSE IF LetterOrder(Head(a)) < LetterOrder(Head(b)) THEN 0 - 1
  ELSE IF LetterOrder(Head(a)) > LetterOrder(Head(b)) THEN 1
  ELSE compareLetters(Tail(a), Tail(b))

RECURSIVE compareCase(_, _)
\* Texts with the same letters: the lower-case letter comes first.
compareCase(a, b) ==
  IF a = <<>> \/ b = <<>> THEN 0
  ELSE IF Head(a) = Head(b) THEN compareCase(Tail(a), Tail(b))
  ELSE IF toLowerCaseChar(Head(a)) = Head(a) THEN 0 - 1
  ELSE 1

\* a.name.localeCompare(b.name) on names of letters.
compareNames(a, b) ==
  IF compareLetters(a, b) # 0 THEN compareLetters(a, b) ELSE compareCase(a, b)

\* The UTF-16 code unit order of the characters of names.
CodeUnits == <<" ">> \o Digits \o UpperCase \o LowerCase

CodeUnit(c) ==
  IF \E i \in 1..Len(CodeUnits) : CodeUnits[i] = c
  THEN CHOOSE i \in 1..Len(CodeUnits) : CodeUnits[i] = c
  ELSE 0

RECURSIVE compareCodeUnits(_, _)
\* The order of Array.prototype.sort() without a comparator.
compareCodeUnits(a, b) ==
  IF a = <<>> /\ b = <<>> THEN 0
  ELSE IF a = <<>> THEN 0 - 1
  ELSE IF b = <<>> THEN 1
  ELSE IF CodeUnit(Head(a)) < CodeUnit(Head(b)) THEN 0 - 1
  ELSE IF CodeUnit(Head(a)) > CodeUnit(Head(b)) THEN 1
  ELSE compareCodeUnits(Tail(a), Tail(b))

\* A plotted rank and the gap.
Point(r) == [gap |-> FALSE, y |-> r]

Gap == [gap |-> TRUE, y |-> 0]

\* The goalies and players the snapshots of the charts are made of.
GoaliePool ==
  {[name |-> Ann, gp |-> 6, so |-> 1, gaa |-> 250, svPct |-> 900],
   [name |-> Bob, gp |-> 6, so |-> 1, gaa |-> 200, svPct |-> 880],
   [name |-> Cy, gp |-> 5, so |-> 3, gaa |-> 100, svPct |-> 950]}

PlayerPool ==
  {[name |-> Ann, rank |-> 1, goals |-> 2, assists |-> 0, points |-> 2],
   [name |-> Bob, rank |-> 2, goals |-> 1, assists |-> 3, points |-> 4],
   [name |-> Cy, rank |-> 3, goals |-> 2, assists |-> 1, points |-> 3]}

\* A snapshot of the day whose list of the first division is the list.
ChartSnapshot(day, list) ==
  [date |-> day,
   divisions |-> [name \in DivisionSet |-> IF name = DIVISION_NAMES[1] THEN list ELSE <<>>]]

RECURSIVE ChartLists(_, _, _)
\* The lists of up to m snapshots that have up to rows rows together.
ChartLists(pool, m, rows) ==
  IF m = 0 THEN {<<>>}
  ELSE {<<>>} \cup UNION {{<<list>> \o rest : rest \in ChartLists(pool, m - 1, rows - Len(list))} :
                           list \in SeqsUpTo(pool, rows)}

\* The snapshots a chart is handed: one per date served, in ascending order
\* of date, as App sorts them.
ChartSnapshots(pool) ==
  {[i \in 1..Len(ls) |-> ChartSnapshot(i, ls[i])] : ls \in ChartLists(pool, MaxDates, MaxChartRows)}

TopNs == {1, 2}

\* snapshot.divisions[division] || []
divisionData(snap) ==
  IF division \in DOMAIN snap.divisions THEN snap.divisions[division] ELSE <<>>

\* goalie[STAT_KEYS[statType]]
getStatValue(rec) == rec[statType]

STAT_SORT_ASCENDING == [so |-> FALSE, gaa |-> TRUE, svPct |-> FALSE]

\* divisionData.filter((g) => g.gp >= GOALIE_MIN_GP)
qualified(list) == SelectSeq(list, LAMBDA g : g.gp >= GOALIE_MIN_GP)

\* Every stat is sorted descending.
goalieOrderDescending(a, b) ==
  IF getStatValue(a) = getStatValue(b)
  THEN compareNames(a.name, b.name)
  ELSE getStatValue(b) - getStatValue(a)

\* The comparator of the goalie ranking.
goalieOrder(a, b) ==
  IF getStatValue(a) = getStatValue(b)
  THEN compareNames(a.name, b.name)
  ELSE IF STAT_SORT_ASCENDING[statType]
  THEN getStatValue(a) - getStatValue(b)
  ELSE getStatValue(b) - getStatValue(a)

RECURSIVE insertGoalie(_, _)
insertGoalie(sorted, g) ==
  IF sorted = <<>> THEN <<g>>
  ELSE IF goalieOrder(sorted[Len(sorted)], g) <= 0
  THEN Append(sorted, g)
  ELSE Append(insertGoalie(SubSeq(sorted, 1, Len(sorted) - 1), g), sorted[Len(sorted)])

RECURSIVE sortGoalies(_)
\* [...qualified].sort(comparator): the sort is stable.
sortGoalies(list) ==
  IF list = <<>> THEN <<>>
  ELSE insertGoalie(sortGoalies(SubSeq(list, 1, Len(list) - 1)), list[Len(list)])

\* sorted.map((rec, index) => ({...rec, statRank: index + 1, statValue}))
withRanks(sorted) ==
  [i \in 1..Len(sorted) |->
     [statRank |-> i, statValue |-> getStatValue(sorted[i])] @@ sorted[i]]

rankedGoalies(snaps) ==
  [i \in 1..Len(snaps) |->
     [date |-> snaps[i].date,
      goalies |-> withRanks(sortGoalies(qualified(divisionData(snaps[i]))))]]

\* (a, b) => getStatValue(b) - getStatValue(a)
playerOrder(a, b) == getStatValue(b) - getStatValue(a)

RECURSIVE insertPlayer(_, _)
insertPlayer(sorted, q) ==
  IF sorted = <<>> THEN <<q>>
  ELSE IF playerOrder(sorted[Len(sorted)], q) <= 0
  THEN Append(sorted, q)
  ELSE Append(insertPlayer(SubSeq(sorted, 1, Len(sorted) - 1), q), sorted[Len(sorted)])

RECURSIVE sortPlayers(_)
sortPlayers(list) ==
  IF list = <<>> THEN <<>>
  ELSE insertPlayer(sortPlayers(SubSeq(list, 1, Len(list) - 1)), list[Len(list)])

rankedPlayers(snaps) ==
  [i \in 1..Len(snaps) |->
     [date |-> snaps[i].date,
      players |-> withRanks(sortPlayers(divisionData(snaps[i])))]]

\* list.slice(0, n)
sliceTop(list, n) == SubSeq(list, 1, IF Len(list) < n THEN Len(list) ELSE n)

hasName(names, name) == \E i \in 1..Len(names) : names[i] = name

RECURSIVE addNames(_, _)
\* Set.add of the names of the entries, in their order.
addNames(names, entries) ==
  IF entries = <<>> THEN names
  ELSE addNames(IF hasName(names, Head(entries).name)
                THEN names
                ELSE Append(names, Head(entries).name),
                Tail(entries))

RECURSIVE topNames(_, _, _)
\* The names within the first n entries of some snapshot, in the order of
\* their first appearance (the order in which a Set keeps them).
topNames(lists, n, names) ==
  IF lists = <<>> THEN names
  ELSE topNames(Tail(lists), n, addNames(names, sliceTop(Head(lists), n)))

\* entries.find((e) => e.name === name): its place, 0 when there is none.
findByName(entries, name) ==
  IF \E i \in 1..Len(entries) : entries[i].name = name
  THEN CHOOSE i \in 1..Len(entries) :
         /\ entries[i].name = name
         /\ \A j \in 1..(i - 1) : entries[j].name # name
  ELSE 0

\* The entry of the name is plotted whatever its rank.
pointAlways(entries, name, n) ==
  IF findByName(entries, name) # 0
  THEN Point(entries[findByName(entries, name)].statRank)
  ELSE Gap

\* The value of a dataset for one snapshot.
point(entries, name, n) ==
  IF findByName(entries, name) # 0 /\ entries[findByName(entries, name)].statRank <= n
  THEN Point(entries[findByName(entries, name)].statRank)
  ELSE Gap

\* format(parseISO(date), "MMM d")
formatMMMd(day) ==
  IF day = 0
  THEN <<"D", "e", "c", " ", "3", "1">>
  ELSE <<"J", "a", "n", " ">>
       \o (IF day >= 10 THEN <<Digits[(day \div 10) + 1]>> ELSE <<>>)
       \o <<Digits[(day % 10) + 1]>>

datasets(lists, names, n) ==
  [d \in 1..Len(names) |->
     [label |-> names[d],
      data |-> [i \in 1..Len(lists) |-> point(lists[i], names[d], n)]]]

\* The legend order of the goalie chart: by the rank in the most recent
\* snapshot, a name absent from it counting as Infinity (two such compare
\* as NaN, that is, as equal).
legendOrder(entries, a, b) ==
  IF findByName(entries, a) = 0 /\ findByName(entries, b) = 0 THEN 0
  ELSE IF findByName(entries, a) = 0 THEN 1
  ELSE IF findByName(entries, b) = 0 THEN 0 - 1
  ELSE entries[findByName(entries, a)].statRank - entries[findByName(entries, b)].statRank

RECURSIVE insertLegend(_, _, _)
insertLegend(entries, sorted, name) ==
  IF sorted = <<>> THEN <<name>>
  ELSE IF legendOrder(entries, sorted[Len(sorted)], name) <= 0
  THEN Append(sorted, name)
  ELSE Append(insertLegend(entries, SubSeq(sorted, 1, Len(sorted) - 1), name),
              sorted[Len(sorted)])

RECURSIVE sortLegend(_, _)
sortLegend(entries, names) ==
  IF names = <<>> THEN <<>>
  ELSE insertLegend(entries, sortLegend(entries, SubSeq(names, 1, Len(names) - 1)),
                    names[Len(names)])

RECURSIVE insertName(_, _)
insertName(sorted, name) ==
  IF sorted = <<>> THEN <<name>>
  ELSE IF compareCodeUnits(sorted[Len(sorted)], name) <= 0
  THEN Append(sorted, name)
  ELSE Append(insertName(SubSeq(sorted, 1, Len(sorted) - 1), name), sorted[Len(sorted)])

RECURSIVE sortNames(_)
\* Array.from(topPlayers).sort()
sortNames(names) ==
  IF names = <<>> THEN <<>>
  ELSE insertName(sortNames(SubSeq(names, 1, Len(names) - 1)), names[Len(names)])

labels(ranked) == [i \in 1..Len(ranked) |-> formatMMMd(ranked[i].date)]

\* chartData of GoalieStatsChart: null without snapshots.
goalieChartData(ranked, n) ==
  IF Len(ranked) = 0 THEN <<>>
  ELSE LET lists == [i \in 1..Len(ranked) |-> ranked[i].goalies] IN
         [labels |-> labels(ranked),
          datasets |-> datasets(lists,
                                sortLegend(ranked[Len(ranked)].goalies,
                                           topNames(lists, n, <<>>)),
                                n)]

\* chartData of PlayerStatsChart.
playerChartData(ranked, n) ==
  IF Len(ranked) = 0 THEN <<>>
  ELSE LET lists == [i \in 1..Len(ranked) |-> ranked[i].players] IN
         [labels |-> labels(ranked),
          datasets |-> datasets(lists, sortNames(topNames(lists, n, <<>>)), n)]

\* GoalieStatsChart renders: its two memoized values are computed.
renderGoalieStatsChart ==
  /\ chart = "goalie"
  /\ rankedSnapshots' = rankedGoalies(statsSnapshots)
  /\ chartData' = goalieChartData(rankedSnapshots', topN)
  /\ UNCHANGED <<chart, statsSnapshots, division, statType, topN>>
  /\ UNCHANGED <<scrapeVars, parseVars, mainVars, sampleVars, appVars>>

\* PlayerStatsChart renders.
renderPlayerStatsChart ==
  /\ chart = "player"
  /\ rankedSnapshots' = rankedPlayers(statsSnapshots)
  /\ chartData' = playerChartData(rankedSnapshots', topN)
  /\ UNCHANGED <<chart, statsSnapshots, division, statType, topN>>
  /\ UNCHANGED <<scrapeVars, parseVars, mainVars, sampleVars, appVars>>

\* A chart as a function of its props, which are drawn at the start.
ChartInit ==
  /\ op = "none"
  /\ pc = "idle"
  /\ k = 0
  /\ divisions = <<>>
  /\ issued = <<>>
  /\ fetched = <<>>
  /\ snapshot = <<>>
  /\ clock = 0
  /\ kind = "none"
  /\ page = <<>>
  /\ parsed = FALSE
  /\ decoded = <<>>
  /\ MainOff
  /\ SampleOff
  /\ AppOff
  /\ chart \in {"goalie", "player"}
  /\ statsSnapshots \in ChartSnapshots(IF chart = "goalie" THEN GoaliePool ELSE PlayerPool)
  /\ division \in {DIVISION_NAMES[1], DIVISION_NAMES[2]}
  /\ statType \in (IF chart = "goalie" THEN {"so", "gaa", "svPct"}
                                       ELSE {"goals", "assists", "points"})
  /\ topN \in TopNs
  /\ rankedSnapshots = <<>>
  /\ chartData = <<>>

ChartNext == renderGoalieStatsChart \/ renderPlayerStatsChart

SpecChart == ChartInit /\ [][ChartNext]_vars

(***************************************************************************)
(* Notions the claims are stated with.                                     *)
(***************************************************************************)
Stats == {"player", "goalie"}

Returned(o) == op = o /\ pc = "returned"

\* The number of rows with at least min <td> cells.
LongRows(rows, min) ==
  Cardinality({i \in 1..Len(rows) : Len(tds(rows[i])) >= min})

\* All body rows of the page's tables, in document order.
BodyRows(html) == ConcatAll([i \in 1..Len(html) |-> html[i].tbody])

\* The page has one body row in all, so a record can only come from it.
OneRow == Len(BodyRows(page)) = 1

TheCells == tds(BodyRows(page)[1])

RankOf(rec) == IF kind = "standings" THEN rec.position ELSE rec.rank

NameOf(rec) == IF kind = "standings" THEN rec.team ELSE rec.name

MinCells == IF kind = "standings" THEN StandingsMinCells
            ELSE IF kind = "player" THEN PlayerMinCells ELSE GoalieMinCells

HeaderLabel == IF kind = "standings" THEN TeamLabel
               ELSE IF kind = "player" THEN PlayerLabel ELSE GoalieLabel

(***************************************************************************)
(* C1: in every division list every record's position (standings) or rank  *)
(* (player, goalie) is 1 + its zero-based index in the list, also when     *)
(* rows of the table body were skipped before it.                          *)
(***************************************************************************)
C1_RankIsIndex ==
  parsed =>
    \A d \in 1..Len(decoded) :
      \A i \in 1..Len(decoded[d]) : RankOf(decoded[d][i]) = i

(***************************************************************************)
(* C2: in scrapePlayerStats and scrapeGoalieStats a division whose fetch   *)
(* failed has the empty list, every division is fetched all the same, in   *)
(* order, and every other division's list is what its own page decodes to. *)
(***************************************************************************)
C2_FailureIsolated ==
  op \in Stats =>
    /\ pc = "returned" <=> Len(fetched) = Len(DIVISION_NAMES)
    /\ \A i \in 1..Len(fetched) :
         /\ fetched[i].name = DIVISION_NAMES[i]
         /\ DIVISION_NAMES[i] \in DOMAIN divisions
         /\ divisions[DIVISION_NAMES[i]] =
              IF fetched[i].resp.status = "ok"
              THEN parseDivision(op, fetched[i].resp.html)
              ELSE <<>>
    /\ pc = "returned" => snapshot.divisions = divisions

C2_Witness ==
  /\ Returned("player")
  /\ fetched[2].resp.status = "rejected"
  /\ fetched[3].resp.status = "notOk"
  /\ snapshot.divisions[DIVISION_NAMES[1]] # <<>>
  /\ snapshot.divisions[DIVISION_NAMES[2]] = <<>>
  /\ snapshot.divisions[DIVISION_NAMES[4]] # <<>>

(***************************************************************************)
(* C3 as claimed: no scrape operation ever rejects to its caller.          *)
(***************************************************************************)
C3_NeverRejects == pc # "rejected"

(***************************************************************************)
(* C3 as amended: scrapePlayerStats and scrapeGoalieStats never reject, a  *)
(* failed fetch gives the division the empty list; scrapeStandings rejects *)
(* exactly when its page fetch fails and returns a snapshot otherwise.     *)
(***************************************************************************)
C3_FailureOutcome ==
  /\ op \in Stats =>
       /\ pc # "rejected"
       /\ \A i \in 1..Len(fetched) :
            fetched[i].resp.status # "ok" =>
              /\ DIVISION_NAMES[i] \in DOMAIN divisions
              /\ divisions[DIVISION_NAMES[i]] = <<>>
  /\ (op = "standings" /\ fetched # <<>>) =>
       /\ pc = "rejected" <=> fetched[1].resp.status # "ok"
       /\ pc = "returned" <=> fetched[1].resp.status = "ok"
       /\ pc = "rejected" => snapshot = <<>>
       /\ pc = "returned" => DOMAIN snapshot.divisions = DivisionSet

C3_Witness ==
  /\ op = "standings"
  /\ pc = "rejected"
  /\ fetched[1].resp.status = "notOk"
  /\ snapshot = <<>>

(***************************************************************************)
(* C4: a division never has more records than its table rows with at      *)
(* least the minimum cell count of the data kind (8, 16, 16): a row with   *)
(* fewer cells yields no record.                                           *)
(***************************************************************************)
SelectedRows(d) ==
  IF kind = "standings"
  THEN IF d <= Len(standingsTables(page)) THEN standingsTables(page)[d].tbody ELSE <<>>
  ELSE IF kind = "player"
  THEN BodyRows(SelectSeq(page, isPlayerStatsTable))
  ELSE BodyRows(SelectSeq(page, LAMBDA t : "leaders" \in t.cls))

C4_ShortRowsDropped ==
  parsed =>
    \A d \in 1..Len(decoded) :
      Len(decoded[d]) <= LongRows(SelectedRows(d), MinCells)

C4_Witness ==
  /\ parsed
  /\ kind = "player"
  /\ page = <<StatsTable(<<StatShort, StatStealth, StatShort>>)>>
  /\ Len(decoded[1]) = 1

(***************************************************************************)
(* C5: every numeric field of every record is a number (never NaN), and a  *)
(* field whose source cell is empty, does not start with a number or is    *)
(* absent is 0.                                                            *)
(***************************************************************************)
IntFields ==
  IF kind = "standings"
  THEN {<<"gp", 1>>, <<"w", 2>>, <<"l", 3>>, <<"t", 4>>, <<"otl", 5>>, <<"pts", 6>>}
  ELSE IF kind = "player"
  THEN {<<"gp", 5>>, <<"goals", 6>>, <<"assists", 7>>, <<"points", 8>>, <<"ppg", 10>>,
        <<"ppa", 11>>, <<"shg", 12>>, <<"sha", 13>>, <<"gwg", 14>>, <<"pim", 15>>}
  ELSE {<<"gp", 3>>, <<"w", 4>>, <<"l", 5>>, <<"t", 6>>, <<"otl", 7>>, <<"so", 8>>,
        <<"mp", 9>>, <<"ga", 10>>, <<"sa", 13>>, <<"sv", 14>>, <<"goals", 16>>,
        <<"assists", 17>>, <<"pim", 18>>}

FloatFields ==
  IF kind = "standings" THEN {<<"wpct", 7>>}
  ELSE IF kind = "player" THEN {<<"pointsPerGame", 9>>}
  ELSE {<<"gaa", 11>>, <<"gsaa", 12>>, <<"svPct", 15>>}

NumericFields == IntFields \cup FloatFields

\* The text of cell i of the row does not start with a number; an absent
\* cell has no text.
NonNumeric(cells, i) ==
  LET s == IF i + 1 <= Len(cells) THEN Unsigned(trim(NodeText(cells[i + 1]))) ELSE <<>>
  IN  \/ s = <<>>
      \/ /\ ~IsDigit(s[1])
         /\ ~(s[1] = "." /\ Len(s) >= 2 /\ IsDigit(s[2]))

NameCell == TheCells[IF kind = "standings" THEN 1 ELSE 2]

Links(c) == find(c, "a", {})

FullNameSpans(c) == findAll(Links(c), "span", {"d-sm-inline"})

PrecedenceName(c) ==
  IF Links(c) # <<>>
  THEN IF FullNameSpans(c) # <<>>
       THEN trim(SelText(FullNameSpans(c)))
       ELSE trim(SelText(Links(c)))
  ELSE trim(NodeText(c))

OneRecord == parsed /\ OneRow /\ Len(decoded[1]) = 1

C6_NamePrecedence ==
  OneRecord => NameOf(decoded[1][1]) = PrecedenceName(NameCell)

(***************************************************************************)
(* C6 as amended: the precedence holds for the team name of                *)
(* scrapeStandings.  The player name is the whole link text whenever the   *)
(* cell has a link (both spans' texts for a link that holds a full-name    *)
(* and an abbreviation span), else the cell text.  The goalie name is the  *)
(* text of the links inside a span.d-sm-block when they have text; when    *)
(* they are there without text, that of the links inside a span.d-sm-none, *)
(* if any; else the whole trimmed cell text.                               *)
(***************************************************************************)
DesktopLinks(c) == findUnder(c, "span", {"d-sm-block"}, "a")

MobileLinks(c) == findUnder(c, "span", {"d-sm-none"}, "a")

C6_NamePerKind ==
  OneRecord =>
    NameOf(decoded[1][1]) =
      IF kind = "standings" THEN PrecedenceName(NameCell)
      ELSE IF kind = "player"
      THEN IF Links(NameCell) # <<>>
           THEN trim(SelText(Links(NameCell)))
           ELSE trim(NodeText(NameCell))
      ELSE IF DesktopLinks(NameCell) # <<>> /\ trim(SelText(DesktopLinks(NameCell))) # <<>>
           THEN trim(SelText(DesktopLinks(NameCell)))
           ELSE IF DesktopLinks(NameCell) # <<>> /\ MobileLinks(NameCell) # <<>>
                THEN trim(SelText(MobileLinks(NameCell)))
                ELSE trim(NodeText(NameCell))

C6_Witness ==
  /\ OneRecord
  /\ kind = "standings"
  /\ NameCell = LinkSpans(Stealth, STL)
  /\ decoded[1][1].team = Stealth

(***************************************************************************)
(* C7: in scrapeStandings division k gets exactly the decoded rows of the  *)
(* k-th table, in document order, that has a body row of 8 or more cells,  *)
(* for k up to the number of such tables; a fifth such table is not used.  *)
(***************************************************************************)
Qualifying(html) ==
  SelectSeq(html, LAMBDA t : LongRows(t.tbody, StandingsMinCells) >= 1)

C7_TablesInOrder ==
  Returned("standings") =>
    LET q == Qualifying(fetched[1].resp.html)
    IN  \A i \in 1..Len(DIVISION_NAMES) :
          i <= Len(q) =>
            /\ DIVISION_NAMES[i] \in DOMAIN snapshot.divisions
            /\ snapshot.divisions[DIVISION_NAMES[i]] = standingsRows(q[i].tbody, <<>>)

C7_Witness ==
  /\ Returned("standings")
  /\ Len(fetched[1].resp.html) = 5
  /\ Len(Qualifying(fetched[1].resp.html)) = 4
  /\ ~hasStandingsData(fetched[1].resp.html[2])
  /\ Len(snapshot.divisions[DIVISION_NAMES[1]]) = 1
  /\ Len(snapshot.divisions[DIVISION_NAMES[2]]) = 2
  /\ Len(snapshot.divisions[DIVISION_NAMES[3]]) = 0
  /\ Len(snapshot.divisions[DIVISION_NAMES[4]]) = 1

(***************************************************************************)
(* C8: with m < 4 such tables scrapeStandings still returns, and the       *)
(* divisions m+1..4 are in the snapshot with the empty list.               *)
(***************************************************************************)
C8_TrailingEmpty ==
  (op = "standings" /\ fetched # <<>> /\ fetched[1].resp.status = "ok") =>
    /\ pc = "returned"
    /\ \A i \in 1..Len(DIVISION_NAMES) :
         i > Len(Qualifying(fetched[1].resp.html)) =>
           /\ DIVISION_NAMES[i] \in DOMAIN snapshot.divisions
           /\ snapshot.divisions[DIVISION_NAMES[i]] = <<>>

C8_Witness ==
  /\ Returned("standings")
  /\ Len(Qualifying(fetched[1].resp.html)) = 2
  /\ snapshot.divisions[DIVISION_NAMES[1]] # <<>>
  /\ snapshot.divisions[DIVISION_NAMES[2]] # <<>>
  /\ snapshot.divisions[DIVISION_NAMES[3]] = <<>>
  /\ snapshot.divisions[DIVISION_NAMES[4]] = <<>>

(***************************************************************************)
(* C9: the table of the rows Stealth 10 7 2 1 0 15 .750, Devils 10 6 3 1 0 *)
(* 13 .650 and eight empty cells decodes to two records, Stealth at        *)
(* position 1 with pts 15 and wpct 0.750, Devils at position 2 with pts 13 *)
(* and wpct 0.650.                                                         *)
(***************************************************************************)
C9_Example ==
  (parsed /\ kind = "standings" /\ page = <<ExampleTable>>) =>
    /\ Len(decoded[1]) = 2
    /\ decoded[1][1].team = Stealth
    /\ decoded[1][1].position = 1
    /\ decoded[1][1].pts = Num(15)
    /\ decoded[1][1].wpct = Num(750)
    /\ decoded[1][2].team = Devils
    /\ decoded[1][2].position = 2
    /\ decoded[1][2].pts = Num(13)
    /\ decoded[1][2].wpct = Num(650)
    /\ \A d \in 2..Len(decoded) : decoded[d] = <<>>

C9_Witness ==
  /\ parsed
  /\ kind = "standings"
  /\ page = <<ExampleTable>>
  /\ Len(decoded[1]) = 2

(***************************************************************************)
(* C10: no record has an empty name or a name that is, in any case of its  *)
(* letters, the header label of its kind (team, player, goalie); a row     *)
(* with enough cells whose decoded name is such yields no record.          *)
(***************************************************************************)
AnyCase(label) ==
  {t \in NameTexts \cup {label} : toLowerCase(t) = label}

DecodedName(cells) ==
  IF kind = "standings" THEN teamName(cells)
  ELSE IF kind = "player" THEN playerName(cells) ELSE goalieName(cells)

C10_HeaderGuard ==
  parsed =>
    /\ \A d \in 1..Len(decoded) : \A i \in 1..Len(decoded[d]) :
         /\ NameOf(decoded[d][i]) # <<>>
         /\ NameOf(decoded[d][i]) \notin AnyCase(HeaderLabel)
    /\ (OneRow /\ Len(TheCells) >= MinCells
          /\ DecodedName(TheCells) \in {<<>>} \cup AnyCase(HeaderLabel)) =>
         \A d \in 1..Len(decoded) : decoded[d] = <<>>

C10_Witness ==
  /\ parsed
  /\ kind = "goalie"
  /\ page = <<StatsTable(<<StatsRow(19, <<"7">>, LinkName(<<"G", "O", "A", "L", "I", "E">>), Ten, Pct750)>>)>>
  /\ decoded[1] = <<>>

(***************************************************************************)
(* C11: fetches are sequential and never retried.  scrapePlayerStats and   *)
(* scrapeGoalieStats start exactly one fetch per division, in the division *)
(* order, the fetch of division j+1 only once the fetch of division j has  *)
(* ended and its list is assigned, so at most one fetch is in flight;      *)
(* scrapeStandings starts exactly one fetch, and no division is extracted  *)
(* before it has ended.  Failed fetches make no difference.                *)
(***************************************************************************)
InFlight == Len(issued) - Len(fetched)

C11_SequentialFetches ==
  /\ InFlight \in {0, 1}
  /\ InFlight = 1 <=> pc = "fetch"
  /\ \A i \in 1..Len(fetched) : fetched[i].name = issued[i].name
  /\ op \in Stats =>
       /\ Len(issued) <= Len(DIVISION_NAMES)
       /\ \A i \in 1..Len(issued) :
            /\ issued[i] = [op |-> op, name |-> DIVISION_NAMES[i]]
            /\ \A j \in 1..(i - 1) : DIVISION_NAMES[j] \in DOMAIN divisions
       /\ pc = "returned" => Len(issued) = Len(DIVISION_NAMES)
  /\ op = "standings" =>
       /\ issued = <<[op |-> "standings", name |-> "standings"]>>
       /\ fetched = <<>> => (divisions = <<>> /\ snapshot = <<>>)

C11_Witness ==
  /\ Returned("goalie")
  /\ Len(issued) = 4
  /\ fetched[1].resp.status = "rejected"
  /\ fetched[2].resp.status = "notOk"
  /\ fetched[3].resp.status = "ok"
  /\ snapshot.divisions[DIVISION_NAMES[4]] # <<>>

(***************************************************************************)
(* C12: for every data kind, after any saves from an absent index file,    *)
(* index.dates is strictly descending (newest first, no date twice) and    *)
(* holds the date of every snapshot file saved so far; and no step ever    *)
(* takes a date out of an index.                                           *)
(***************************************************************************)
IndexDates(kd) ==
  IF index[kd] = <<>> THEN {} ELSE {index[kd].dates[i] : i \in 1..Len(index[kd].dates)}

StrictlyDescending(dates) == \A i \in 1..(Len(dates) - 1) : dates[i] > dates[i + 1]

C12_IndexDates ==
  /\ [](\A kd \in KindSet :
          /\ index[kd] # <<>> => StrictlyDescending(index[kd].dates)
          /\ DOMAIN files[kd] \subseteq IndexDates(kd))
  /\ [][\A kd \in KindSet : IndexDates(kd) \subseteq IndexDates(kd)']_vars

C12_Witness ==
  /\ index["standings"] # <<>>
  /\ index["standings"].dates = <<1, 0>>
  /\ index["goalie"] # <<>>
  /\ index["goalie"].dates = <<1, 0>>
  /\ DOMAIN files["goalie"] = {0, 1}

(***************************************************************************)
(* C13 as claimed: in a run of main without --force, a kind whose snapshot *)
(* for today exists at the start is not fetched and its snapshot files and *)
(* index file stay as they were; every kind that lacks today's snapshot is *)
(* scraped; with all three there the run fetches and writes nothing.       *)
(***************************************************************************)
Scraped(kd) == \E i \in 1..Len(issued) : issued[i].op = kd

Untouched(kd) ==
  /\ ~Scraped(kd)
  /\ files[kd] = atStart.files[kd]
  /\ index[kd] = atStart.index[kd]

RunOver == mpc \in {"done", "exit1"}

Unforced == mpc # "off" /\ ~argv

C13_SkipExisting ==
  Unforced =>
    /\ \A kd \in KindSet : exist[kd] => Untouched(kd)
    /\ RunOver => \A kd \in KindSet : ~exist[kd] => Scraped(kd)
    /\ (\A kd \in KindSet : exist[kd]) =>
         (mpc = "done" /\ issued = <<>> /\ \A kd \in KindSet : Untouched(kd))

(***************************************************************************)
(* C13 as amended: the same, but a kind that lacks today's snapshot is     *)
(* scraped only in a run that gets to it: a run that ends with exit status *)
(* 1 has fetched the standings and left the kinds after it alone, also     *)
(* those that lack today's snapshot.                                       *)
(***************************************************************************)
C13_SkipExistingUnlessFatal ==
  Unforced =>
    /\ \A kd \in KindSet : exist[kd] => Untouched(kd)
    /\ mpc = "done" => \A kd \in KindSet : ~exist[kd] => Scraped(kd)
    /\ mpc = "exit1" =>
         /\ ~exist["standings"]
         /\ Scraped("standings")
         /\ \A kd \in KindSet : Untouched(kd) \/ kd = "standings"
         /\ files = atStart.files /\ index = atStart.index
    /\ (\A kd \in KindSet : exist[kd]) =>
         (mpc = "done" /\ issued = <<>> /\ \A kd \in KindSet : Untouched(kd))

C13_Witness ==
  /\ Unforced
  /\ mpc = "done"
  /\ ~exist["standings"] /\ exist["player"] /\ exist["goalie"]
  /\ Scraped("standings")
  /\ today \in DOMAIN files["standings"]
  /\ today \notin DOMAIN atStart.files["standings"]
  /\ Untouched("player")
  /\ Untouched("goalie")

(***************************************************************************)
(* C14: a player or goalie stats snapshot whose four divisions are all     *)
(* empty (all four fetches failed, say) is written to its dated file, its  *)
(* date is in the index, and main goes on to its next step: no exit with   *)
(* status 1.                                                               *)
(***************************************************************************)
AllEmpty(snap) ==
  /\ DOMAIN snap.divisions = DivisionSet
  /\ \A n \in DivisionSet : snap.divisions[n] = <<>>

StepAfter(o) == IF o = "player" THEN "goalie" ELSE "done"

C14_EmptyStatsSaved ==
  [][\A o \in Stats :
       (mpc = o /\ mpc' # o /\ issued' # issued /\ AllEmpty(snapshot')) =>
         /\ snapshot'.date \in DOMAIN files'[o]
         /\ files'[o][snapshot'.date] = snapshot'
         /\ snapshot'.date \in IndexDates(o)'
         /\ mpc' = StepAfter(o)]_vars

C14_Witness ==
  /\ mpc = "goalie"
  /\ Scraped("player")
  /\ Len(fetched) >= 4
  /\ \A i \in (Len(fetched) - 3)..Len(fetched) : fetched[i].resp.status # "ok"
  /\ AllEmpty(snapshot)
  /\ files["player"][snapshot.date] = snapshot
  /\ snapshot.date \in IndexDates("player")

(***************************************************************************)
(* C15: every snapshot a scrape operation returns maps exactly the four    *)
(* division names, each to a list, whatever the pages hold and whichever   *)
(* fetches fail.                                                           *)
(***************************************************************************)
IsList(x) == DOMAIN x = 1..Len(x)

C15_FourDivisions ==
  pc = "returned" =>
    /\ DOMAIN snapshot.divisions = {"1-BRODEUR", "2-MANNO", "3-STEVENS NORTH", "3-STEVENS SOUTH"}
    /\ \A n \in DOMAIN snapshot.divisions : IsList(snapshot.divisions[n])

C15_Witness ==
  /\ Returned("player")
  /\ \A i \in 1..Len(fetched) : fetched[i].resp.status # "ok"
  /\ DOMAIN snapshot.divisions = DivisionSet
  /\ \A n \in DivisionSet : snapshot.divisions[n] = <<>>

(***************************************************************************)
(* C16: scrapeDivisionStats takes rows only from tables whose first row's  *)
(* text contains, in any letter case, player, gp and pts, and              *)
(* scrapeDivisionGoalieStats only from tables of class leaders: the tables *)
(* not selected make no difference to the list, and a page with no         *)
(* selected table gives the empty list.                                    *)
(***************************************************************************)
FirstRow(table) ==
  IF table.thead # <<>> THEN table.thead[1]
  ELSE IF table.tbody # <<>> THEN table.tbody[1] ELSE <<>>

RowText(row) == ConcatAll([i \in 1..Len(row) |-> NodeText(row[i])])

ContainsAnyCase(text, label) ==
  \E i \in 0..(Len(text) - Len(label)) :
    \A j \in 1..Len(label) : toLowerCaseChar(text[i + j]) = label[j]

Selected(table) ==
  IF kind = "player"
  THEN /\ ContainsAnyCase(RowText(FirstRow(table)), PlayerLabel)
       /\ ContainsAnyCase(RowText(FirstRow(table)), GpLabel)
       /\ ContainsAnyCase(RowText(FirstRow(table)), PtsLabel)
  ELSE "leaders" \in table.cls

C16_TableSelection ==
  (parsed /\ kind \in Stats) =>
    /\ decoded[1] = parseDivision(kind, SelectSeq(page, Selected))
    /\ Len(decoded[1]) <= LongRows(BodyRows(SelectSeq(page, Selected)), MinCells)
    /\ SelectSeq(page, Selected) = <<>> => decoded[1] = <<>>

C16_Witness ==
  /\ parsed
  /\ kind = "player"
  /\ page = <<StatsTable(<<StatStealth>>), Table({"leaders"}, <<>>, <<StatDevils>>)>>
  /\ Len(decoded[1]) = 1
  /\ decoded[1][1].name = Stealth

(***************************************************************************)
(* C17: the decoder never re-sorts.  In every data kind a division's       *)
(* records are, in order, the decodings of some of the selected body rows  *)
(* taken in their order, one record at most from a row, whatever the stat  *)
(* values.                                                                 *)
(***************************************************************************)
\* rec is what the row decodes to, its position or rank left aside.
FromRow(rec, row) ==
  /\ Len(tds(row)) >= MinCells
  /\ IF kind = "standings"
     THEN [rec EXCEPT !.position = 0] = [TeamStanding(tds(row), <<>>) EXCEPT !.position = 0]
     ELSE IF kind = "player"
     THEN [rec EXCEPT !.rank = 0] = [PlayerStats(tds(row), 0, <<>>) EXCEPT !.rank = 0]
     ELSE [rec EXCEPT !.rank = 0] = [GoalieStats(tds(row), 0, <<>>) EXCEPT !.rank = 0]

RECURSIVE IsSubsequence(_, _)
IsSubsequence(recs, rows) ==
  IF recs = <<>> THEN TRUE
  ELSE IF rows = <<>> THEN FALSE
  ELSE IF FromRow(Head(recs), Head(rows))
  THEN IsSubsequence(Tail(recs), Tail(rows))
  ELSE IsSubsequence(recs, Tail(rows))

C17_OrderKept ==
  parsed => \A d \in 1..Len(decoded) : IsSubsequence(decoded[d], SelectedRows(d))

C17_Witness ==
  /\ parsed
  /\ kind = "standings"
  /\ page = <<Table({}, <<>>, <<RowDevils, RowShort, RowStealth>>)>>
  /\ Len(decoded[1]) = 2
  /\ decoded[1][1].team = Devils /\ decoded[1][1].wpct = Num(650)
  /\ decoded[1][2].team = Stealth /\ decoded[1][2].wpct = Num(750)

(***************************************************************************)
(* C18: every TeamStanding record of scrapeStandings has its wpct within   *)
(* 0.000 and 1.000, whatever the page holds.                               *)
(***************************************************************************)
C18_WpctInRange ==
  (parsed /\ kind = "standings") =>
    \A d \in 1..Len(decoded) : \A i \in 1..Len(decoded[d]) :
      /\ ~decoded[d][i].wpct.nan
      /\ decoded[d][i].wpct.v >= 0
      /\ decoded[d][i].wpct.v <= 1000

(***************************************************************************)
(* C19: in main, when the standings scrape is due and is rejected or finds *)
(* no team at all, the process exits with status 1; in that run no         *)
(* snapshot file and no index is written, and player stats and goalie      *)
(* stats are neither fetched nor saved, whether or not they have today's   *)
(* snapshot.  Nothing else makes main exit with status 1.                  *)
(***************************************************************************)
StandingsFailed ==
  /\ Scraped("standings")
  /\ \/ fetched[1].resp.status # "ok"
     \/ \A t \in 1..Len(fetched[1].resp.html) :
          \A i \in 1..Len(fetched[1].resp.html[t].tbody) :
            LET cells == tds(fetched[1].resp.html[t].tbody[i])
            IN  Len(cells) >= StandingsMinCells =>
                  teamName(cells) \in {<<>>} \cup AnyCase(TeamLabel)

C19_StandingsFatal ==
  mpc # "off" =>
    /\ StandingsFailed <=> mpc = "exit1"
    /\ mpc = "exit1" =>
         /\ files = atStart.files
         /\ index = atStart.index
         /\ ~Scraped("player")
         /\ ~Scraped("goalie")
         /\ Len(issued) = 1

C19_Witness ==
  /\ mpc = "exit1"
  /\ ~argv
  /\ runs = 2
  /\ fetched[1].resp.status = "ok"
  /\ exist = [kd \in KindSet |-> FALSE]
  /\ files["standings"] # <<>>
  /\ today \notin DOMAIN files["player"]
  /\ ~Scraped("player")

(***************************************************************************)
(* C20 as claimed: with --force, a run of main on a date that is already   *)
(* in the three indexes scrapes all three kinds again, overwrites their    *)
(* snapshot files of that date and leaves the dates of each index exactly  *)
(* as they were; only lastUpdated changes.                                 *)
(***************************************************************************)
Rerun ==
  /\ argv
  /\ \A kd \in KindSet :
       /\ atStart.index[kd] # <<>>
       /\ datesIncludes(atStart.index[kd].dates, today)

WrittenNow(kd) ==
  /\ today \in DOMAIN files[kd]
  /\ index[kd] # <<>>
  /\ index[kd].lastUpdated.run = runs

C20_ForcedRerun ==
  (Rerun /\ RunOver) =>
    \A kd \in KindSet :
      /\ Scraped(kd)
      /\ WrittenNow(kd)
      /\ DOMAIN files[kd] = DOMAIN atStart.files[kd]
      /\ index[kd].dates = atStart.index[kd].dates
      /\ index[kd].divisions = atStart.index[kd].divisions

(***************************************************************************)
(* C20 as amended: a save under a date the index has leaves the index's    *)
(* dates as they were and writes that date's file.  A forced run on a date *)
(* in the three indexes that ends on that date without exit status 1 has   *)
(* scraped all three kinds, written their files of that date and left the  *)
(* dates as they were; one that ends with exit status 1 has written        *)
(* nothing.  A snapshot is filed under the date its scrape ended on: when  *)
(* midnight (UTC) passes during the run, the later snapshots make new      *)
(* files and new dates.                                                    *)
(***************************************************************************)
C20_SaveIdempotent ==
  /\ []((Rerun /\ mpc = "done" /\ clock = today) =>
          \A kd \in KindSet :
            /\ Scraped(kd)
            /\ WrittenNow(kd)
            /\ DOMAIN files[kd] = DOMAIN atStart.files[kd]
            /\ index[kd].dates = atStart.index[kd].dates
            /\ index[kd].divisions = atStart.index[kd].divisions)
  /\ []((Rerun /\ mpc = "exit1") => (files = atStart.files /\ index = atStart.index))
  /\ [][\A kd \in KindSet :
          (mpc = kd /\ issued' # issued /\ mpc' # "exit1") =>
            /\ snapshot'.date = clock
            /\ files'[kd] = [d \in DOMAIN files[kd] \cup {clock} |->
                              IF d = clock THEN snapshot' ELSE files[kd][d]]
            /\ index'[kd].lastUpdated = now
            /\ clock \in IndexDates(kd) => index'[kd].dates = index[kd].dates]_vars

C20_Witness ==
  /\ Rerun
  /\ mpc = "done"
  /\ clock = today
  /\ \A kd \in KindSet : Scraped(kd) /\ WrittenNow(kd)
  /\ files["standings"][today] # atStart.files["standings"][today]
  /\ files["player"][today] # atStart.files["player"][today]
  /\ files["goalie"][today] = snapshot
  /\ index["goalie"].dates = atStart.index["goalie"].dates
  /\ index["goalie"].lastUpdated # atStart.index["goalie"].lastUpdated

(***************************************************************************)
(* C21.  For every non-empty input and both values of isMobile,            *)
(* sampleSnapshots returns the items at a strictly increasing sequence of  *)
(* input indexes, beginning with the first item of the input and ending    *)
(* with its last; on desktop the result has exactly min(n, 28) items and   *)
(* is the input itself when n <= 28.                                       *)
(***************************************************************************)
Sampled == items # <<>> /\ sampled # <<>>

\* The input index of an item of the result (0 when it is no input item).
IndexOf(x) == IF \E i \in 1..Len(items) : items[i] = x
              THEN CHOOSE i \in 1..Len(items) : items[i] = x
              ELSE 0

MinOf(a, b) == IF a <= b THEN a ELSE b

C21_SampleOrder ==
  Sampled =>
    /\ \A j \in 1..Len(sampled) : IndexOf(sampled[j]) \in 1..Len(items)
    /\ \A j \in 1..(Len(sampled) - 1) : IndexOf(sampled[j]) < IndexOf(sampled[j + 1])
    /\ sampled[1] = items[1]
    /\ sampled[Len(sampled)] = items[Len(items)]
    /\ ~isMobile => /\ Len(sampled) = MinOf(Len(items), DESKTOP_MAX_POINTS)
                    /\ Len(items) <= DESKTOP_MAX_POINTS => sampled = items

\* A mobile sampling of more snapshots than the desktop limit has returned.
C21_Witness ==
  /\ Sampled
  /\ isMobile
  /\ Len(items) > DESKTOP_MAX_POINTS
  /\ Len(sampled) < Len(items)

(***************************************************************************)
(* C22.  On mobile, sampleSnapshots returns at most MOBILE_MAX_POINTS (14) *)
(* items, whatever the length of the input.                                *)
(***************************************************************************)
C22_MobileLimit ==
  (Sampled /\ isMobile) => Len(sampled) <= MOBILE_MAX_POINTS

(***************************************************************************)
(* C23.  In loadData, the steps that load player and goalie stats leave    *)
(* the error state null and the standings snapshots as they are, whatever  *)
(* the responses; the error state becomes a message only in the standings  *)
(* step; and loading is false once loadData has finished.                  *)
(***************************************************************************)
StatsStep == lpc \in {"player", "goalie"}

C23_StatsFailuresSilent ==
  /\ [](lpc = "finished" => ~loading)
  /\ [][/\ StatsStep => (error' = null /\ snapshots' = snapshots)
        /\ (error' # error /\ error' # null) => lpc = "standings"]_vars

\* loadData has finished with standings shown and neither stats kind loaded.
C23_Witness ==
  /\ lpc = "finished"
  /\ ~loading
  /\ error = null
  /\ snapshots # <<>>
  /\ playerStatsSnapshots = <<>>
  /\ goalieStatsSnapshots = <<>>

(***************************************************************************)
(* C24.  selectedDivision is always one of the four division names; when   *)
(* the hash is read (on mount and on a hashchange event) a hash naming a   *)
(* division selects it and any other hash leaves the selection as it was;  *)
(* a toggle click sets the selection to the clicked division and the URL   *)
(* hash to a hash naming it.                                               *)
(***************************************************************************)
RECURSIVE PercentDecode(_)
\* The text a percent-encoded fragment stands for.
PercentDecode(t) ==
  IF t = <<>> THEN <<>>
  ELSE IF Len(t) >= 3 /\ SubSeq(t, 1, 3) = <<"%", "2", "0">>
  THEN <<" ">> \o PercentDecode(SubSeq(t, 4, Len(t)))
  ELSE <<Head(t)>> \o PercentDecode(Tail(t))

\* The URL hash h is the link to the division.
NamesDivision(h, name) ==
  h # <<>> /\ Head(h) = "#" /\ PercentDecode(Tail(h)) = DivisionChars(name)

NamedBy(h) == {name \in DivisionSet : NamesDivision(h, name)}

HashReadStep ==
  \/ lpc = "off" /\ lpc' # "off"
  \/ event'.type = "hashchange" /\ lpc' = lpc

ClickStep == event'.type = "click" /\ lpc' = lpc

C24_DivisionSelection ==
  /\ [](selectedDivision \in DivisionSet)
  /\ [][/\ HashReadStep =>
             selectedDivision' = IF NamedBy(hash) # {}
                                 THEN CHOOSE name \in NamedBy(hash) : TRUE
                                 ELSE selectedDivision
        /\ ClickStep => /\ selectedDivision' = event'.division
                        /\ NamesDivision(hash', event'.division)]_vars

(***************************************************************************)
(* C30.  Whenever loadData has finished with the error state null, at      *)
(* least one standings snapshot is loaded and the snapshots are in         *)
(* ascending order of date.                                                *)
(***************************************************************************)
AscendingByDate(snaps) ==
  \A i \in 1..(Len(snaps) - 1) :
    localeCompare(ISODate(snaps[i].date), ISODate(snaps[i + 1].date)) <= 0

C30_LoadedOrError ==
  (lpc = "finished" /\ error = null) =>
    (snapshots # <<>> /\ AscendingByDate(snapshots))

(***************************************************************************)
(* Notions of the chart claims.                                            *)
(***************************************************************************)
Rendered(c) == chart = c /\ statsSnapshots # <<>> /\ Len(rankedSnapshots) = Len(statsSnapshots)

\* A ranked entry without the two fields the ranking adds.
Strip(e) == [f \in DOMAIN e \ {"statRank", "statValue"} |-> e[f]]

Count(list, rec) == Cardinality({j \in 1..Len(list) : list[j] = rec})

\* The ranks of the entries with the name.
Ranks(entries, name) ==
  {entries[j].statRank : j \in {j \in 1..Len(entries) : entries[j].name = name}}

Lowest(S) == CHOOSE x \in S : \A y \in S : x <= y

\* The point a chart is to show for a name: the rank (of the best entry of
\* that name) when it is within the first n, a gap otherwise.
Plotted(entries, name, n) ==
  IF Ranks(entries, name) # {} /\ Lowest(Ranks(entries, name)) <= n
  THEN Point(Lowest(Ranks(entries, name)))
  ELSE Gap

\* The names with a rank within the first n in at least one snapshot.
WithinTopN(lists) ==
  UNION {{lists[i][j].name : j \in {j \in 1..Len(lists[i]) : lists[i][j].statRank <= topN}} :
           i \in 1..Len(lists)}

\* The datasets are those of the names within the first n of some snapshot,
\* one each, and every point is the rank within the first n or a gap.
DatasetsOf(lists) ==
  LET sets == chartData.datasets IN
    /\ \A d, e \in 1..Len(sets) : sets[d].label = sets[e].label => d = e
    /\ {sets[d].label : d \in 1..Len(sets)} = WithinTopN(lists)
    /\ \A d \in 1..Len(sets) :
         /\ Len(sets[d].data) = Len(lists)
         /\ \A i \in 1..Len(lists) :
              /\ sets[d].data[i] = Plotted(lists[i], sets[d].label, topN)
              /\ ~sets[d].data[i].gap => sets[d].data[i].y \in 1..topN

(***************************************************************************)
(* C25.  GoalieStatsChart ranks, in each snapshot, exactly the goalies of  *)
(* the selected division with gp >= GOALIE_MIN_GP; their statRank values   *)
(* are 1..k in the order of the selected stat (ascending for gaa,          *)
(* descending for so and svPct), equal values ordered by name; a point of  *)
(* a dataset is the goalie's statRank when statRank <= topN and a gap      *)
(* otherwise, so that no plotted point belongs to a goalie with fewer than *)
(* GOALIE_MIN_GP games played in that snapshot.                            *)
(***************************************************************************)
GoalieLists == [i \in 1..Len(rankedSnapshots) |-> rankedSnapshots[i].goalies]

InStatOrder(a, b) ==
  /\ statType = "gaa" => a.statValue <= b.statValue
  /\ statType \in {"so", "svPct"} => a.statValue >= b.statValue
  /\ a.statValue = b.statValue => compareNames(a.name, b.name) <= 0

C25_GoalieRanking ==
  Rendered("goalie") =>
    /\ \A i \in 1..Len(statsSnapshots) :
         LET data == divisionData(statsSnapshots[i])
             list == GoalieLists[i]
         IN /\ \A rec \in GoaliePool :
                 Count([j \in 1..Len(list) |-> Strip(list[j])], rec)
                   = IF rec.gp >= GOALIE_MIN_GP THEN Count(data, rec) ELSE 0
            /\ \A j \in 1..Len(list) :
                 /\ list[j].statRank = j
                 /\ list[j].statValue = list[j][statType]
                 /\ list[j].gp >= GOALIE_MIN_GP
            /\ \A j \in 1..(Len(list) - 1) : InStatOrder(list[j], list[j + 1])
    /\ DatasetsOf(GoalieLists)
    /\ \A d \in 1..Len(chartData.datasets), i \in 1..Len(statsSnapshots) :
         ~chartData.datasets[d].data[i].gap =>
           \E j \in 1..Len(divisionData(statsSnapshots[i])) :
             /\ divisionData(statsSnapshots[i])[j].name = chartData.datasets[d].label
             /\ divisionData(statsSnapshots[i])[j].gp >= GOALIE_MIN_GP

\* The gaa chart of a snapshot in which the goalie with too few games has
\* the best value and the two others are ranked against their order in the
\* snapshot; with topN = 1 only the first of them has a dataset.
C25_Witness ==
  /\ Rendered("goalie")
  /\ statType = "gaa"
  /\ topN = 1
  /\ \E i \in 1..Len(statsSnapshots) :
       /\ \E j \in 1..Len(divisionData(statsSnapshots[i])) :
            divisionData(statsSnapshots[i])[j].gp < GOALIE_MIN_GP
       /\ Len(GoalieLists[i]) = 2
       /\ GoalieLists[i][1].name = Bob
       /\ GoalieLists[i][2].name = Ann
       /\ \E a, b \in 1..Len(divisionData(statsSnapshots[i])) :
            /\ a < b
            /\ divisionData(statsSnapshots[i])[a].name = Ann
            /\ divisionData(statsSnapshots[i])[b].name = Bob
  /\ \A d \in 1..Len(chartData.datasets) : chartData.datasets[d].label = Bob
  /\ \E d \in 1..Len(chartData.datasets), i \in 1..Len(statsSnapshots) :
       chartData.datasets[d].data[i] = Point(1)

(***************************************************************************)
(* C26.  PlayerStatsChart ranks, in each snapshot, all players of the      *)
(* selected division by the selected stat in descending order: statRank is *)
(* the place after sorting, whatever the scraped rank.  There is a dataset *)
(* for exactly the names within the top N of at least one snapshot; its    *)
(* point for a snapshot is the player's statRank when statRank <= topN and *)
(* a gap otherwise, so every plotted value lies in 1..topN.                *)
(***************************************************************************)
PlayerLists == [i \in 1..Len(rankedSnapshots) |-> rankedSnapshots[i].players]

C26_PlayerRanking ==
  Rendered("player") =>
    /\ \A i \in 1..Len(statsSnapshots) :
         LET data == divisionData(statsSnapshots[i])
             list == PlayerLists[i]
         IN /\ \A rec \in PlayerPool :
                 Count([j \in 1..Len(list) |-> Strip(list[j])], rec) = Count(data, rec)
            /\ \A j \in 1..Len(list) :
                 /\ list[j].statRank = j
                 /\ list[j].statValue = list[j][statType]
            /\ \A j \in 1..(Len(list) - 1) : list[j].statValue >= list[j + 1].statValue
    /\ DatasetsOf(PlayerLists)

\* A chart in which a player's statRank differs from the scraped rank and
\* a dataset has both a plotted rank and a gap.
C26_Witness ==
  /\ Rendered("player")
  /\ \E i \in 1..Len(statsSnapshots), j \in 1..MaxChartRows :
       /\ j <= Len(PlayerLists[i])
       /\ PlayerLists[i][j].statRank # PlayerLists[i][j].rank
  /\ \E d \in 1..Len(chartData.datasets) :
       /\ \E i \in 1..Len(statsSnapshots) : chartData.datasets[d].data[i].gap
       /\ \E i \in 1..Len(statsSnapshots) : ~chartData.datasets[d].data[i].gap

(***************************************************************************)
(* C27.  In a run of main, every snapshot that is saved carries the date   *)
(* main computed at its start (today), also when the UTC day changes       *)
(* during the run: no file is written for a date whose existence the run   *)
(* did not check.                                                          *)
(***************************************************************************)
\* The dates of the kind's files that this run has written or overwritten.
WrittenDates(kd) ==
  {d \in DOMAIN files[kd] :
     d \notin DOMAIN atStart.files[kd] \/ files[kd][d] # atStart.files[kd][d]}

C27_SavedUnderToday ==
  mpc # "off" => \A kd \in KindSet : \A d \in WrittenDates(kd) : d = today

(***************************************************************************)
(* C28.  In the list scrapePlayerStats returns for a division the rank     *)
(* values increase strictly along the list (so they are pairwise           *)
(* distinct), also when several tables of the page pass as player-stats    *)
(* tables and their rows are appended to the same list.                    *)
(***************************************************************************)
C28_RanksIncrease ==
  (parsed /\ kind = "player") =>
    \A i \in 1..(Len(decoded[1]) - 1) : decoded[1][i].rank < decoded[1][i + 1].rank

(***************************************************************************)
(* C29.  For each data kind, after every run of main that ends normally,   *)
(* the set of dates listed in the index is the set of dates that have a    *)
(* snapshot file; from empty data directories, and also in runs that       *)
(* follow a run which stopped between writing a snapshot file and          *)
(* rewriting the index.                                                    *)
(***************************************************************************)
C29_IndexMatchesFiles ==
  mpc = "done" =>
    \A kd \in KindSet : IndexDates(kd) = DOMAIN files[kd]

====
